---- MODULE Spec2Model ----
(***************************************************************************)
(* Model of the two runtime-helper generators of the repository:           *)
(*   - compiler/mono/src/code_gen_help.rs   (CodeGenHelp: refcount helper  *)
(*     cache, call-site expander and the Str refcount helper body)         *)
(*   - crates/compiler/gen_llvm/src/llvm/expect.rs  (clone-to-buffer       *)
(*     generator, modelled by the cursor arithmetic and buffer writes of   *)
(*     the code it generates)                                              *)
(***************************************************************************)
EXTENDS Integers, Sequences, FiniteSets, TLC

VARIABLES
    ptr_size,               \* CodeGenHelp.ptr_size
    rc_procs_to_generate,   \* CodeGenHelp.rc_procs_to_generate
    ident_ids,              \* the IdentIds handed to every call: names by ident id
    log,                    \* every call made so far and what it returned
    run,                    \* the last execution of a generated helper body
    clone,                  \* the last run of generated clone code: input and outcome
    llvm_module,            \* env.module while clone code is generated: functions, code
    shm,                    \* the shared buffer's state words, its writer and a reader
    threads                 \* threads of the compiled program running helpers on one string

rcvars == <<ptr_size, rc_procs_to_generate, ident_ids, log, run>>

(***************************************************************************)
(* Bounds of the model.                                                    *)
(***************************************************************************)
MaxCalls == 3        \* calls of expand_refcount_stmt / generate_procs per run
MaxAmount == 2       \* increment amounts 1..MaxAmount
MaxLen == 2          \* string length fields -MaxLen..MaxLen
MaxStrBytes == 1     \* heap strings of 0..MaxStrBytes bytes (clone)
MaxListLen == 2      \* lists of 0..MaxListLen elements (clone)
MaxDepth == 1        \* recursive union values nest at most MaxDepth deep (clone)
MaxGap == 2          \* extra_offset starts 0..MaxGap bytes after the fixed slot
MaxShift == 1        \* offset starts 0..MaxShift bytes after the frame header
MaxGenDepth == 12    \* nesting of generator calls followed while generating clone code
MaxBuilds == 2       \* build_clone calls generated into one module
MaxFrames == 2       \* frames appended to the shared buffer
MaxLookups == 2      \* variables captured by one frame
MaxThreads == 3      \* concurrent helper invocations on one string

(***************************************************************************)
(* Symbols, layouts and the mono IR.                                       *)
(***************************************************************************)
HomeSym(ident_id) == [module |-> "home", ident |-> ident_id]
UserSym(n) == [module |-> "user", ident |-> n]
ARG_1 == [module |-> "builtin", ident |-> 1]
ARG_2 == [module |-> "builtin", ident |-> 2]

Builtin(b) == [kind |-> "Builtin", builtin |-> b, fields |-> <<>>]
StructOf(fs) == [kind |-> "Struct", builtin |-> "", fields |-> fs]

LAYOUT_BOOL == Builtin("Bool")
LAYOUT_UNIT == StructOf(<<>>)
LAYOUT_PTR == [kind |-> "RecursivePointer", builtin |-> "", fields |-> <<>>]
LAYOUT_U32 == Builtin("U32")
LAYOUT_STR == Builtin("Str")

\* Layout::Builtin(Builtin::Int(intwidth_isize)) for a pointer size in bytes
LayoutIsize(ps) == IF ps = 4 THEN Builtin("I32") ELSE Builtin("I64")

\* The layouts requests are made for
StructStrInt == StructOf(<<LAYOUT_STR, Builtin("I64")>>)
RequestLayouts == {LAYOUT_STR, Builtin("I64"), StructStrInt}

None == [some |-> FALSE]
Some(v) == [some |-> TRUE, value |-> v]

\* Stmt
Let(sym, expr, layout, next) ==
    [stmt |-> "Let", symbol |-> sym, expr |-> expr, layout |-> layout, next |-> next]
Ret(sym) == [stmt |-> "Ret", symbol |-> sym]
Switch(cond, cond_layout, branches, default, ret_layout) ==
    [stmt |-> "Switch", cond_symbol |-> cond, cond_layout |-> cond_layout,
     branches |-> branches, default_branch |-> default, ret_layout |-> ret_layout]

\* Expr
LiteralInt(n) == [expr |-> "Literal", int |-> n]
EmptyStruct == [expr |-> "Struct", fields |-> <<>>]
StructAtIndex(index, field_layouts, structure) ==
    [expr |-> "StructAtIndex", index |-> index, field_layouts |-> field_layouts,
     structure |-> structure]
CallByName(name, ret_layout, arg_layouts, arguments) ==
    [expr |-> "Call",
     call_type |-> [kind |-> "ByName", name |-> name, ret_layout |-> ret_layout,
                    arg_layouts |-> arg_layouts,
                    specialization_id |-> "BACKEND_DUMMY"],
     arguments |-> arguments]
CallLowLevel(op, arguments) ==
    [expr |-> "Call",
     call_type |-> [kind |-> "LowLevel", op |-> op, update_mode |-> "BACKEND_DUMMY"],
     arguments |-> arguments]

ProcLayout(arguments, result) == [arguments |-> arguments, result |-> result]

\* ModifyRc
ModInc(structure, amount) == [rc |-> "Inc", structure |-> structure, amount |-> amount]
ModDec(structure) == [rc |-> "Dec", structure |-> structure, amount |-> 0]
ModDecRef(structure) == [rc |-> "DecRef", structure |-> structure, amount |-> 0]

Structure == UserSym(1)
Modifies ==
    {ModInc(Structure, n) : n \in 1..MaxAmount} \cup {ModDec(Structure), ModDecRef(Structure)}

\* the continuation statement handed to expand_refcount_stmt
Followings == {Ret(Structure)}

(***************************************************************************)
(* CodeGenHelp                                                             *)
(***************************************************************************)
\* a support check that lets every builtin through
layout_is_supported_any_builtin(layout) == layout.kind = "Builtin"

\* a support check that also lets structs through
layout_is_supported_or_struct(layout) == layout = LAYOUT_STR \/ layout.kind = "Struct"

layout_is_supported(layout) == layout = LAYOUT_STR

layout_debug_name(layout) ==
    CASE layout.kind = "Builtin" /\ layout.builtin = "List" -> "list"
      [] layout.kind = "Builtin" /\ layout.builtin = "Set" -> "set"
      [] layout.kind = "Builtin" /\ layout.builtin = "Dict" -> "dict"
      [] layout.kind = "Builtin" /\ layout.builtin = "Str" -> "str"
      [] layout.kind = "Builtin" -> "unreachable!"
      [] layout.kind = "Struct" -> "struct"
      [] layout.kind = "Union" -> "union"
      [] layout.kind = "LambdaSet" -> "lambdaset"
      [] layout.kind = "RecursivePointer" -> "recursive_pointer"

\* create_symbol: ident_ids.add(name) appends the name and the new symbol carries
\* its index.  The operator gives the symbol; the caller appends the name.
create_symbol(ids) == HomeSym(Len(ids))

\* ident_ids after adding the names in order
AddIdents(ids, names) == ids \o names

\* a lookup that never hits: every request registers a new helper
get_proc_symbol_always_new(queue, ids, layout, op) ==
    LET new_symbol == HomeSym(Len(ids))
    IN  [is_existing |-> FALSE, symbol |-> new_symbol,
         queue |-> Append(queue, [layout |-> layout, op |-> op, symbol |-> new_symbol]),
         ids |-> ids \o <<"#rc">>]

\* a lookup that puts a new helper at the front of the queue
get_proc_symbol_newest_first(queue, ids, layout, op) ==
    LET found == {i \in DOMAIN queue : queue[i].layout = layout /\ queue[i].op = op}
        new_symbol == create_symbol(ids)
        debug_name == "#rc" \o op \o "_" \o layout_debug_name(layout) \o "_"
                      \o ToString(Len(queue))
    IN  IF found # {}
        THEN [is_existing |-> TRUE, symbol |-> queue[CHOOSE i \in found : TRUE].symbol,
              queue |-> queue, ids |-> ids]
        ELSE [is_existing |-> FALSE, symbol |-> new_symbol,
              queue |-> <<[layout |-> layout, op |-> op, symbol |-> new_symbol]>> \o queue,
              ids |-> AddIdents(ids, <<debug_name>>)]

\* get_proc_symbol: (is_existing, symbol) and the updated queue and ident_ids
get_proc_symbol(queue, ids, layout, op) ==
    LET found == {i \in DOMAIN queue : queue[i].layout = layout /\ queue[i].op = op}
    IN  IF found # {}
        THEN LET first == CHOOSE i \in found : \A j \in found : i <= j
             IN  [is_existing |-> TRUE, symbol |-> queue[first].symbol,
                  queue |-> queue, ids |-> ids]
        ELSE LET layout_name == layout_debug_name(layout)
                 unique_idx == Len(queue)
                 debug_name == "#rc" \o op \o "_" \o layout_name \o "_" \o ToString(unique_idx)
                 new_symbol == create_symbol(ids)
             IN  [is_existing |-> FALSE, symbol |-> new_symbol,
                  queue |-> Append(queue, [layout |-> layout, op |-> op, symbol |-> new_symbol]),
                  ids |-> AddIdents(ids, <<debug_name>>)]

\* an Inc arm that always asks the helper for one increment
ExpandIncByOne(queue, ids, ps, layout, modify, following) ==
    LET layout_isize == LayoutIsize(ps)
        got == get_proc_symbol(queue, ids, layout, "Inc")
        amount_sym == create_symbol(got.ids)
        ids1 == AddIdents(got.ids, <<"amount">>)
        arg_layouts == <<layout, layout_isize>>
        call_result_empty == create_symbol(ids1)
        call_expr == CallByName(got.symbol, LAYOUT_UNIT, arg_layouts,
                                <<modify.structure, amount_sym>>)
        call_stmt == Let(call_result_empty, call_expr, LAYOUT_UNIT, following)
    IN  [stmt |-> Let(amount_sym, LiteralInt(1), layout_isize, call_stmt),
         new_proc_info |-> IF got.is_existing THEN None
                           ELSE Some([symbol |-> got.symbol,
                                      layout |-> ProcLayout(arg_layouts, LAYOUT_UNIT)]),
         queue |-> got.queue, ids |-> AddIdents(ids1, <<"call_result_empty">>)]

\* ModifyRc::Inc arm of expand_refcount_stmt
ExpandInc(queue, ids, ps, layout, modify, following) ==
    LET layout_isize == LayoutIsize(ps)
        got == get_proc_symbol(queue, ids, layout, "Inc")
        amount_sym == create_symbol(got.ids)
        ids1 == AddIdents(got.ids, <<"amount">>)
        amount_expr == LiteralInt(modify.amount)
        arg_layouts == <<layout, layout_isize>>
        call_result_empty == create_symbol(ids1)
        ids2 == AddIdents(ids1, <<"call_result_empty">>)
        call_expr == CallByName(got.symbol, LAYOUT_UNIT, arg_layouts,
                                <<modify.structure, amount_sym>>)
        call_stmt == Let(call_result_empty, call_expr, LAYOUT_UNIT, following)
        rc_stmt == Let(amount_sym, amount_expr, layout_isize, call_stmt)
        new_proc_info == IF got.is_existing
                         THEN None
                         ELSE Some([symbol |-> got.symbol,
                                    layout |-> ProcLayout(arg_layouts, LAYOUT_UNIT)])
    IN  [stmt |-> rc_stmt, new_proc_info |-> new_proc_info,
         queue |-> got.queue, ids |-> ids2]

\* ModifyRc::Dec arm of expand_refcount_stmt
ExpandDec(queue, ids, ps, layout, modify, following) ==
    LET got == get_proc_symbol(queue, ids, layout, "Dec")
        arg_layouts == <<layout, LayoutIsize(ps)>>
        call_result_empty == create_symbol(got.ids)
        ids1 == AddIdents(got.ids, <<"call_result_empty">>)
        call_expr == CallByName(got.symbol, LAYOUT_UNIT, <<layout>>, <<modify.structure>>)
        rc_stmt == Let(call_result_empty, call_expr, LAYOUT_UNIT, following)
        new_proc_info == IF got.is_existing
                         THEN None
                         ELSE Some([symbol |-> got.symbol,
                                    layout |-> ProcLayout(arg_layouts, LAYOUT_UNIT)])
    IN  [stmt |-> rc_stmt, new_proc_info |-> new_proc_info,
         queue |-> got.queue, ids |-> ids1]

\* DecRef handled like Dec, through a helper proc
ExpandDecRefAsDec(queue, ids, ps, layout, modify, following) ==
    ExpandDec(queue, ids, ps, layout, modify, following)

\* ModifyRc::DecRef arm of expand_refcount_stmt
ExpandDecRef(queue, ids, ps, layout, modify, following) ==
    LET rc_ptr_sym == create_symbol(ids)
        ids1 == AddIdents(ids, <<"rc_ptr">>)
        rc_ptr_expr == CallLowLevel("RefCountGetPtr", <<modify.structure>>)
        call_result_empty == create_symbol(ids1)
        ids2 == AddIdents(ids1, <<"call_result_empty">>)
        call_expr == CallLowLevel("RefCountDec", <<rc_ptr_sym>>)
        call_stmt == Let(call_result_empty, call_expr, LAYOUT_UNIT, following)
        rc_stmt == Let(rc_ptr_sym, rc_ptr_expr, LAYOUT_PTR, call_stmt)
    IN  [stmt |-> rc_stmt, new_proc_info |-> None, queue |-> queue, ids |-> ids2]

\* expand_refcount_stmt: the returned (stmt, new_proc_info) and the updated
\* rc_procs_to_generate and ident_ids
expand_refcount_stmt(queue, ids, ps, layout, modify, following) ==
    IF ~layout_is_supported(layout)
    THEN [stmt |-> following, new_proc_info |-> None, queue |-> queue, ids |-> ids]
    ELSE CASE modify.rc = "Inc" -> ExpandInc(queue, ids, ps, layout, modify, following)
           [] modify.rc = "Dec" -> ExpandDec(queue, ids, ps, layout, modify, following)
           [] modify.rc = "DecRef" -> ExpandDecRef(queue, ids, ps, layout, modify, following)

\* the test with its operands swapped: zero >= len
IsBigStrExprSwapped(len, zero) == CallLowLevel("NumGte", <<zero, len>>)

\* is_big_str = (len >= 0), in gen_modify_str
IsBigStrExpr(len, zero) == CallLowLevel("NumGte", <<len, zero>>)

\* return_unit; `unit` is the symbol created for it
return_unit(unit) == Let(unit, EmptyStruct, LAYOUT_UNIT, Ret(unit))

gen_args(ps, op, layout) ==
    LET roc_value == [layout |-> layout, symbol |-> ARG_1]
    IN  IF op = "Inc"
        THEN <<roc_value, [layout |-> LayoutIsize(ps), symbol |-> ARG_2]>>
        ELSE <<roc_value>>

\* the names gen_modify_str adds to ident_ids, in creation order
StrHelperIdents ==
    <<"len", "zero", "is_big_str", "elements", "rc_ptr", "alignment",
      "zig_call_result", "unit">>

\* a helper that loads the refcount, computes the new value and stores it itself
gen_modify_str_own_rmw(ids, ps, op, proc_name) ==
    LET string == ARG_1
        layout_isize == LayoutIsize(ps)
        base == Len(ids)
        len == HomeSym(base)
        zero == HomeSym(base + 1)
        is_big_str == HomeSym(base + 2)
        elements == HomeSym(base + 3)
        rc_ptr == HomeSym(base + 4)
        old_rc == HomeSym(base + 5)
        new_rc == HomeSym(base + 6)
        unit == HomeSym(base + 7)
        then_branch ==
            Let(elements, StructAtIndex(0, <<LAYOUT_PTR, layout_isize>>, string), LAYOUT_PTR,
              Let(rc_ptr, CallLowLevel("RefCountGetPtr", <<elements>>), LAYOUT_PTR,
                Let(old_rc, CallLowLevel("PtrLoad", <<rc_ptr>>), layout_isize,
                  Let(new_rc, CallLowLevel(IF op = "Inc" THEN "NumAdd" ELSE "NumSub",
                                           <<old_rc, zero>>), layout_isize,
                    Let(unit, CallLowLevel("PtrStore", <<rc_ptr, new_rc>>), LAYOUT_UNIT,
                      Ret(unit))))))
        if_stmt == Switch(is_big_str, LAYOUT_BOOL,
                          <<[value |-> 1, info |-> "None", stmt |-> then_branch]>>,
                          [info |-> "None", stmt |-> return_unit(unit)],
                          LAYOUT_UNIT)
        body == Let(len, StructAtIndex(1, <<LAYOUT_PTR, layout_isize>>, string), layout_isize,
                  Let(zero, LiteralInt(0), layout_isize,
                    Let(is_big_str, IsBigStrExpr(len, zero), LAYOUT_BOOL, if_stmt)))
    IN  [name |-> proc_name,
         args |-> gen_args(ps, op, LAYOUT_STR),
         body |-> body,
         closure_data_layout |-> None,
         ret_layout |-> LAYOUT_UNIT,
         is_self_recursive |-> "NotSelfRecursive",
         must_own_arguments |-> FALSE,
         host_exposed_layouts |-> "NotHostExposed"]

\* gen_modify_str: the Proc; its eight symbols are created from ident_ids `ids`
gen_modify_str(ids, ps, op, proc_name) ==
    LET string == ARG_1
        layout_isize == LayoutIsize(ps)
        base == Len(ids)
        len == HomeSym(base)
        zero == HomeSym(base + 1)
        is_big_str == HomeSym(base + 2)
        elements == HomeSym(base + 3)
        rc_ptr == HomeSym(base + 4)
        alignment == HomeSym(base + 5)
        zig_call_result == HomeSym(base + 6)
        unit == HomeSym(base + 7)
        len_expr == StructAtIndex(1, <<LAYOUT_PTR, layout_isize>>, string)
        zero_expr == LiteralInt(0)
        is_big_str_expr == IsBigStrExpr(len, zero)
        elements_expr == StructAtIndex(0, <<LAYOUT_PTR, layout_isize>>, string)
        rc_ptr_expr == CallLowLevel("RefCountGetPtr", <<elements>>)
        alignment_expr == LiteralInt(ps)
        zig_call_expr == IF op = "Inc"
                         THEN CallLowLevel("RefCountInc", <<rc_ptr, ARG_2>>)
                         ELSE CallLowLevel("RefCountDec", <<rc_ptr, alignment>>)
        then_branch ==
            Let(elements, elements_expr, LAYOUT_PTR,
              Let(rc_ptr, rc_ptr_expr, LAYOUT_PTR,
                Let(alignment, alignment_expr, LAYOUT_U32,
                  Let(zig_call_result, zig_call_expr, LAYOUT_UNIT,
                    Ret(zig_call_result)))))
        if_stmt == Switch(is_big_str, LAYOUT_BOOL,
                          <<[value |-> 1, info |-> "None", stmt |-> then_branch]>>,
                          [info |-> "None", stmt |-> return_unit(unit)],
                          LAYOUT_UNIT)
        body == Let(len, len_expr, layout_isize,
                  Let(zero, zero_expr, layout_isize,
                    Let(is_big_str, is_big_str_expr, LAYOUT_BOOL, if_stmt)))
    IN  [name |-> proc_name,
         args |-> gen_args(ps, op, LAYOUT_STR),
         body |-> body,
         closure_data_layout |-> None,
         ret_layout |-> LAYOUT_UNIT,
         is_self_recursive |-> "NotSelfRecursive",
         must_own_arguments |-> FALSE,
         host_exposed_layouts |-> "NotHostExposed"]

\* generate_procs: the procs for the drained queue, in queue order, and ident_ids
RECURSIVE generate_procs(_, _, _)
generate_procs(queue, ids, ps) ==
    IF queue = <<>>
    THEN [procs |-> <<>>, ids |-> ids, panic |-> FALSE]
    ELSE LET e == Head(queue)
         IN  IF e.layout = LAYOUT_STR
             THEN LET proc == gen_modify_str(ids, ps, e.op, e.symbol)
                      rest == generate_procs(Tail(queue), AddIdents(ids, StrHelperIdents), ps)
                  IN  [procs |-> <<proc>> \o rest.procs, ids |-> rest.ids,
                       panic |-> rest.panic]
             ELSE [procs |-> <<>>, ids |-> ids, panic |-> TRUE]

(***************************************************************************)
(* Execution of a generated helper body (the mono IR the backend compiles) *)
(***************************************************************************)
Unit == <<>>

\* the heap-or-small string value a helper is run on: (elements pointer, length
\* field read as isize)
StrValue(len) == <<[ptr |-> "elements"], len>>

Bind(env, sym, val) == <<[symbol |-> sym, value |-> val]>> \o env

Lookup(env, sym) ==
    LET i == CHOOSE i \in DOMAIN env :
                 /\ env[i].symbol = sym
                 /\ \A j \in DOMAIN env : env[j].symbol = sym => i <= j
    IN  env[i].value

ArgValues(env, arguments) == [i \in DOMAIN arguments |-> Lookup(env, arguments[i])]

\* value of an expression and the low-level calls it performs
Eval(expr, env) ==
    CASE expr.expr = "Literal" -> [value |-> expr.int, calls |-> <<>>]
      [] expr.expr = "Struct" -> [value |-> Unit, calls |-> <<>>]
      [] expr.expr = "StructAtIndex" ->
            [value |-> Lookup(env, expr.structure)[expr.index + 1], calls |-> <<>>]
      [] expr.expr = "Call" /\ expr.call_type.kind = "LowLevel" ->
            LET op == expr.call_type.op
                args == ArgValues(env, expr.arguments)
                here == <<[op |-> op, args |-> args]>>
            IN  CASE op = "NumGte" ->
                        [value |-> IF args[1] >= args[2] THEN 1 ELSE 0, calls |-> here]
                  [] op = "RefCountGetPtr" ->
                        [value |-> [rc_ptr_of |-> args[1]], calls |-> here]
                  [] OTHER -> [value |-> Unit, calls |-> here]

RECURSIVE Exec(_, _, _)
Exec(stmt, env, calls) ==
    CASE stmt.stmt = "Let" ->
            LET ev == Eval(stmt.expr, env)
            IN  Exec(stmt.next, Bind(env, stmt.symbol, ev.value), calls \o ev.calls)
      [] stmt.stmt = "Ret" -> [ret |-> Lookup(env, stmt.symbol), calls |-> calls]
      [] stmt.stmt = "Switch" ->
            LET c == Lookup(env, stmt.cond_symbol)
                hit == {i \in DOMAIN stmt.branches : stmt.branches[i].value = c}
            IN  IF hit # {}
                THEN Exec(stmt.branches[CHOOSE i \in hit : \A j \in hit : i <= j].stmt,
                          env, calls)
                ELSE Exec(stmt.default_branch.stmt, env, calls)

\* run proc on a string value (and an amount, when it takes one)
RunProc(proc, string, amount) ==
    LET env1 == Bind(<<>>, proc.args[1].symbol, string)
        env2 == IF Len(proc.args) = 2 THEN Bind(env1, proc.args[2].symbol, amount) ELSE env1
    IN  Exec(proc.body, env2, <<>>)

(***************************************************************************)
(* The CodeGenHelp state machine                                           *)
(***************************************************************************)
NoRun == [ran |-> FALSE]
NoThreads == [active |-> FALSE]

RcInit ==
    /\ ptr_size \in {4, 8}
    /\ rc_procs_to_generate = <<>>
    /\ ident_ids = <<>>
    /\ log = <<>>
    /\ run = NoRun

ExpandRefcountStmt ==
    /\ Len(log) < MaxCalls
    /\ \E layout \in RequestLayouts, modify \in Modifies, following \in Followings :
        LET r == expand_refcount_stmt(rc_procs_to_generate, ident_ids, ptr_size,
                                      layout, modify, following)
        IN  /\ rc_procs_to_generate' = r.queue
            /\ ident_ids' = r.ids
            /\ log' = Append(log, [call |-> "expand_refcount_stmt", layout |-> layout,
                                   modify |-> modify, following |-> following,
                                   stmt |-> r.stmt, new_proc_info |-> r.new_proc_info,
                                   queue_before |-> rc_procs_to_generate,
                                   queue_after |-> r.queue])
    /\ run' = NoRun
    /\ UNCHANGED ptr_size

\* a generate_procs that iterates over the queue without taking it out of self
GenerateProcsKeepsQueue ==
    /\ Len(log) < MaxCalls
    /\ LET r == generate_procs(rc_procs_to_generate, ident_ids, ptr_size)
       IN  /\ ident_ids' = r.ids
           /\ log' = Append(log, [call |-> "generate_procs", procs |-> r.procs,
                                  panic |-> r.panic,
                                  queue_before |-> rc_procs_to_generate,
                                  queue_after |-> rc_procs_to_generate])
    /\ run' = NoRun
    /\ UNCHANGED <<ptr_size, rc_procs_to_generate>>

GenerateProcs ==
    /\ Len(log) < MaxCalls
    /\ LET r == generate_procs(rc_procs_to_generate, ident_ids, ptr_size)
       IN  /\ rc_procs_to_generate' = <<>>
           /\ ident_ids' = r.ids
           /\ log' = Append(log, [call |-> "generate_procs", procs |-> r.procs,
                                  panic |-> r.panic,
                                  queue_before |-> rc_procs_to_generate,
                                  queue_after |-> <<>>])
    /\ run' = NoRun
    /\ UNCHANGED ptr_size

\* the compiled program runs a helper returned by the last generate_procs
RunHelper ==
    /\ log # <<>>
    /\ log[Len(log)].call = "generate_procs"
    /\ \E i \in DOMAIN log[Len(log)].procs, len \in (-MaxLen)..MaxLen :
         LET proc == log[Len(log)].procs[i]
         IN  \E amount \in IF Len(proc.args) = 2 THEN 1..MaxAmount ELSE {0} :
               run' = [ran |-> TRUE, proc |-> proc, len |-> len, amount |-> amount,
                       result |-> RunProc(proc, StrValue(len), amount)]
    /\ UNCHANGED <<ptr_size, rc_procs_to_generate, ident_ids, log>>

RcNext == ExpandRefcountStmt \/ GenerateProcs \/ RunHelper

(***************************************************************************)
(* expect.rs: layouts as the clone generator sees them.                    *)
(* RecursivePointer(rec) names its union in RecUnions (the interner).      *)
(***************************************************************************)
LInt(w) == [kind |-> "Builtin", builtin |-> "Int", width |-> w]
LBool == [kind |-> "Builtin", builtin |-> "Bool", width |-> 1]
LStr == [kind |-> "Builtin", builtin |-> "Str", width |-> 0]
LList(elem) == [kind |-> "Builtin", builtin |-> "List", elem |-> elem]
LStruct(field_layouts) == [kind |-> "Struct", field_layouts |-> field_layouts]
LLambdaSet == [kind |-> "LambdaSet"]
LBoxed(inner) == [kind |-> "Boxed", inner |-> inner]
LRecPtr(rec) == [kind |-> "RecursivePointer", rec |-> rec]
LUnion(u) == [kind |-> "Union", union |-> u]

NonRecursive(tags) == [variant |-> "NonRecursive", tags |-> tags]
Recursive(tags) == [variant |-> "Recursive", tags |-> tags]
NonNullableUnwrapped(fields) == [variant |-> "NonNullableUnwrapped", tags |-> <<fields>>]
NullableWrapped(nullable_id, other_tags) ==
    [variant |-> "NullableWrapped", nullable_id |-> nullable_id, tags |-> other_tags]
NullableUnwrapped(nullable_id, other_fields) ==
    [variant |-> "NullableUnwrapped", nullable_id |-> nullable_id, tags |-> <<other_fields>>]

Max(a, b) == IF a >= b THEN a ELSE b

round_up_to_alignment(width, alignment) ==
    IF alignment <= 1 THEN width
    ELSE IF width % alignment = 0 THEN width
    ELSE width + alignment - (width % alignment)

\* UnionLayout::stores_tag_id_in_pointer(target_info)
stores_tag_id_in_pointer(u) ==
    CASE u.variant = "Recursive" -> Len(u.tags) < ptr_size
      [] u.variant = "NullableWrapped" -> Len(u.tags) + 1 < ptr_size
      [] OTHER -> FALSE

\* UnionLayout::stores_tag_id_as_data(target_info)
stores_tag_id_as_data(u) ==
    CASE u.variant = "NonRecursive" -> TRUE
      [] u.variant \in {"Recursive", "NullableWrapped"} -> ~stores_tag_id_in_pointer(u)
      [] OTHER -> FALSE

\* UnionLayout::tag_id_layout: a one-byte discriminant
tag_id_layout == LInt(1)

RECURSIVE stack_size(_), alignment_bytes(_), SumSizes(_), MaxAlign(_), SlicesWidth(_),
          SlicesAlign(_)

\* sum of the fields' stack sizes
SumSizes(layouts) ==
    IF layouts = <<>> THEN 0 ELSE stack_size(Head(layouts)) + SumSizes(Tail(layouts))

MaxAlign(layouts) ==
    IF layouts = <<>> THEN 1
    ELSE Max(alignment_bytes(Head(layouts)), MaxAlign(Tail(layouts)))

\* Layout::stack_size_and_alignment_slices: widest variant, before rounding
SlicesWidth(tags) ==
    IF tags = <<>> THEN 0 ELSE Max(SumSizes(Head(tags)), SlicesWidth(Tail(tags)))

SlicesAlign(tags) ==
    IF tags = <<>> THEN 1 ELSE Max(MaxAlign(Head(tags)), SlicesAlign(Tail(tags)))

\* UnionLayout::data_size_and_alignment, the width
data_size(u) ==
    LET data_align == SlicesAlign(u.tags)
        data_width == round_up_to_alignment(SlicesWidth(u.tags), data_align)
    IN  IF stores_tag_id_as_data(u)
        THEN round_up_to_alignment(data_width + 1, data_align)
        ELSE data_width

alignment_bytes(layout) ==
    CASE layout.kind = "Builtin" /\ layout.builtin \in {"Int", "Bool"} -> layout.width
      [] layout.kind = "Builtin" -> ptr_size
      [] layout.kind = "Struct" -> MaxAlign(layout.field_layouts)
      [] layout.kind = "LambdaSet" -> 1
      [] layout.kind = "Union" /\ layout.union.variant = "NonRecursive" ->
            SlicesAlign(layout.union.tags)
      [] OTHER -> ptr_size

\* LayoutInterner::stack_size
stack_size(layout) ==
    CASE layout.kind = "Builtin" /\ layout.builtin \in {"Int", "Bool"} -> layout.width
      [] layout.kind = "Builtin" -> 3 * ptr_size
      [] layout.kind = "Struct" ->
            round_up_to_alignment(SumSizes(layout.field_layouts),
                                  MaxAlign(layout.field_layouts))
      [] layout.kind = "LambdaSet" -> 0
      [] layout.kind = "Union" /\ layout.union.variant = "NonRecursive" ->
            data_size(layout.union)
      [] OTHER -> ptr_size

RECURSIVE safe_to_memcpy(_), AllSafe(_)
AllSafe(layouts) ==
    IF layouts = <<>> THEN TRUE
    ELSE safe_to_memcpy(Head(layouts)) /\ AllSafe(Tail(layouts))

\* LayoutInterner::safe_to_memcpy
safe_to_memcpy(layout) ==
    CASE layout.kind = "Builtin" -> layout.builtin \in {"Int", "Bool"}
      [] layout.kind = "Struct" -> AllSafe(layout.field_layouts)
      [] layout.kind = "LambdaSet" -> TRUE
      [] layout.kind = "Union" /\ layout.union.variant = "NonRecursive" ->
            \A i \in DOMAIN layout.union.tags : AllSafe(layout.union.tags[i])
      [] OTHER -> FALSE

(***************************************************************************)
(* The layouts cloned in this model.                                       *)
(***************************************************************************)
I64 == LInt(8)
PairI64 == LStruct(<<I64, I64>>)

\* a union whose recursion goes through the union that contains it
PongUnion == Recursive(<< <<I64>>, <<LRecPtr("Ping")>> >>)

\* the recursive unions RecursivePointer refers to
RecUnionIds == {"IntList", "StrTree", "Expr", "Rose", "Pairs", "Quad"}
RecUnion(rec) ==
    CASE rec = "IntList" -> NullableUnwrapped(0, <<I64, LRecPtr("IntList")>>)
      [] rec = "StrTree" ->
            NullableWrapped(1, << <<LStr, LRecPtr("StrTree")>>, <<I64>> >>)
      [] rec = "Expr" -> Recursive(<< <<LStr>>, <<I64, LRecPtr("Expr")>> >>)
      [] rec = "Rose" -> NonNullableUnwrapped(<<I64, LList(LRecPtr("Rose"))>>)
      [] rec = "Pairs" -> NullableUnwrapped(1, <<PairI64, LRecPtr("Pairs")>>)
      [] rec = "Ping" -> NullableUnwrapped(0, <<LStr, LUnion(PongUnion)>>)
      [] rec = "Quad" ->
            NullableWrapped(1, << <<I64>>, <<LStr>>, <<I64, LRecPtr("Quad")>> >>)

CloneLayouts ==
    {I64, LBool, LStr, LList(I64), LList(LStr), PairI64,
     LStruct(<<LStr, I64>>), LStruct(<<LStr, PairI64>>),
     LBoxed(I64), LBoxed(LStr), LStruct(<<LStr, LBoxed(I64)>>), LLambdaSet,
     LUnion(NonRecursive(<< <<I64>>, <<LStr>> >>)),
     LUnion(NonRecursive(<< <<I64>>, <<>> >>))}
    \cup {LUnion(RecUnion(rec)) : rec \in RecUnionIds}

(***************************************************************************)
(* Values                                                                  *)
(***************************************************************************)
Scalar == [val |-> "scalar"]
SmallStr == [val |-> "str", big |-> FALSE, len |-> 0]
BigStr(n) == [val |-> "str", big |-> TRUE, len |-> n]
ListVal(elems) == [val |-> "list", elems |-> elems]
StructVal(fields) == [val |-> "struct", fields |-> fields]
TagVal(tag_id, fields) == [val |-> "tag", tag_id |-> tag_id, fields |-> fields]
NullPtr == [val |-> "null"]
BoxVal(inner) == [val |-> "box", inner |-> inner]
LambdaVal == [val |-> "lambda"]

IsNullable(u) == u.variant \in {"NullableWrapped", "NullableUnwrapped"}

\* the tag ids of the non-null variants of u, and the fields of the variant of tag id i
TagIds(u) ==
    IF IsNullable(u)
    THEN (0..Len(u.tags)) \ {u.nullable_id}
    ELSE 0..(Len(u.tags) - 1)

FieldsOfTag(u, i) ==
    IF IsNullable(u) /\ i > u.nullable_id THEN u.tags[i] ELSE u.tags[i + 1]

RECURSIVE ValuesOf(_, _), SeqValues(_, _), ListsOf(_, _), UnionValues(_, _)

SeqValues(layouts, d) ==
    IF layouts = <<>> THEN {<<>>}
    ELSE {<<h>> \o t : h \in ValuesOf(Head(layouts), d), t \in SeqValues(Tail(layouts), d)}

\* sequences of at most n of the given values
ListsOf(vals, n) ==
    IF n = 0 THEN {<<>>}
    ELSE {<<>>} \cup {<<h>> \o t : h \in vals, t \in ListsOf(vals, n - 1)}

UnionValues(u, d) ==
    (IF IsNullable(u) THEN {NullPtr} ELSE {})
    \cup UNION {{TagVal(i, fs) : fs \in SeqValues(FieldsOfTag(u, i), d)} : i \in TagIds(u)}

\* the values of a layout whose recursive pointers nest at most d deep
ValuesOf(layout, d) ==
    CASE layout.kind = "Builtin" /\ layout.builtin \in {"Int", "Bool"} -> {Scalar}
      [] layout.kind = "Builtin" /\ layout.builtin = "Str" ->
            {SmallStr} \cup {BigStr(n) : n \in 0..MaxStrBytes}
      [] layout.kind = "Builtin" /\ layout.builtin = "List" ->
            {ListVal(es) : es \in ListsOf(ValuesOf(layout.elem, d), MaxListLen)}
      [] layout.kind = "Struct" ->
            {StructVal(fs) : fs \in SeqValues(layout.field_layouts, d)}
      [] layout.kind = "LambdaSet" -> {LambdaVal}
      [] layout.kind = "Union" -> UnionValues(layout.union, d)
      [] layout.kind = "Boxed" -> {BoxVal(v) : v \in ValuesOf(layout.inner, d)}
      [] layout.kind = "RecursivePointer" ->
            IF d = 0
            THEN (IF IsNullable(RecUnion(layout.rec)) THEN {NullPtr} ELSE {})
            ELSE UnionValues(RecUnion(layout.rec), d - 1)

(***************************************************************************)
(* The generated clone code, by what it does when run on a value: the      *)
(* extra offset it returns, the buffer writes it performs (in order), and  *)
(* the build_clone calls it is made of (pre-order), each with the cursors  *)
(* it received and the cursors of the build_clone that made it.            *)
(***************************************************************************)
Cursors(offset, extra_offset) == [offset |-> offset, extra_offset |-> extra_offset]

\* typed values handed to build_copy
PtrInt(n) == [width |-> ptr_size, kind |-> "int", n |-> n]
I32(n) == [width |-> 4, kind |-> "int", n |-> n]
Data(width) == [width |-> width, kind |-> "data", n |-> 0]

Wr(at, value) == [at |-> at, width |-> value.width, kind |-> value.kind, n |-> value.n]

Res(ret, writes, calls) == [ret |-> ret, writes |-> writes, calls |-> calls]

\* the outcome of a nested build_clone, recorded with the cursors of its caller
Nested(res, caller) == [res EXCEPT !.calls[1].caller = caller]

\* build_copy: store `value` at `offset`; returns offset + size of the value
build_copy(offset, value) == Res(offset + value.width, <<Wr(offset, value)>>, <<>>)

\* write_pointer_with_tag_id: the writes
write_pointer_with_tag_id(offset, extra_offset, u, tag_id) ==
    IF stores_tag_id_in_pointer(u)
    THEN build_copy(offset, I32(tag_id)).writes
         \o build_copy(offset + 4, I32(extra_offset)).writes
    ELSE build_copy(offset, PtrInt(extra_offset)).writes

\* the bitcode routine STR_CLONE_TO: a small string is copied into its fixed slot;
\* a heap string has its header written to the slot and its bytes to extra_offset
str_clone_to(value, offset, extra_offset) ==
    IF value.big
    THEN Res(extra_offset + value.len,
             <<Wr(offset, Data(3 * ptr_size)), Wr(extra_offset, Data(value.len))>>, <<>>)
    ELSE Res(extra_offset, <<Wr(offset, Data(3 * ptr_size))>>, <<>>)

RECURSIVE build_clone(_, _, _), build_clone_struct(_, _, _), CloneFields(_, _, _, _, _),
          build_clone_tag(_, _, _), build_clone_tag_help(_, _, _, _),
          build_clone_builtin(_, _, _), CloneElems(_, _, _, _, _, _)

\* Layout::Boxed arm of build_clone
CloneBoxed(cursors, value, inner_layout) ==
    LET wr == build_copy(cursors.offset, PtrInt(cursors.extra_offset))
        inner_width == stack_size(inner_layout)
        new_extra == cursors.offset + inner_width
        inner == Nested(build_clone(inner_layout, value.inner,
                                    Cursors(cursors.extra_offset, new_extra)), cursors)
    IN  Res(inner.ret, wr.writes \o inner.writes, inner.calls)

\* build_clone without the record of the call itself
CloneDispatch(layout, value, cursors) ==
    CASE layout.kind = "Builtin" -> build_clone_builtin(cursors, value, layout)
      [] layout.kind = "Struct" -> build_clone_struct(cursors, value, layout.field_layouts)
      [] layout.kind = "LambdaSet" -> Res(cursors.extra_offset, <<>>, <<>>)
      [] layout.kind = "Union" ->
            IF safe_to_memcpy(layout)
            THEN Res(cursors.extra_offset,
                     <<Wr(cursors.offset, Data(stack_size(layout)))>>, <<>>)
            ELSE build_clone_tag(cursors, value, layout.union)
      [] layout.kind = "Boxed" -> CloneBoxed(cursors, value, layout.inner)
      [] layout.kind = "RecursivePointer" ->
            build_clone_tag(cursors, value, RecUnion(layout.rec))

build_clone(layout, value, cursors) ==
    LET r == CloneDispatch(layout, value, cursors)
    IN  Res(r.ret, r.writes,
            <<[layout |-> layout, cursors |-> cursors, ret |-> r.ret, caller |-> cursors]>>
            \o r.calls)

\* the field loop of build_clone_struct, from field i on; `acc` is what the earlier
\* fields did and `caller` the cursors build_clone_struct received
CloneFields(field_layouts, values, i, cursors, acc) ==
    IF i > Len(field_layouts)
    THEN Res(cursors.extra_offset, acc.writes, acc.calls)
    ELSE LET r == Nested(build_clone(field_layouts[i], values[i], cursors), acc.caller)
             field_width == stack_size(field_layouts[i])
         IN  CloneFields(field_layouts, values, i + 1,
                         Cursors(cursors.offset + field_width, r.ret),
                         [caller |-> acc.caller, writes |-> acc.writes \o r.writes,
                          calls |-> acc.calls \o r.calls])

build_clone_struct(cursors, value, field_layouts) ==
    IF safe_to_memcpy(LStruct(field_layouts))
    THEN build_copy(cursors.offset, Data(stack_size(LStruct(field_layouts))))
    ELSE CloneFields(field_layouts, value.fields, 1, cursors,
                     [caller |-> cursors, writes |-> <<>>, calls |-> <<>>])

\* build_clone_tag: the call of the union's clone helper
build_clone_tag(cursors, value, union_layout) ==
    build_clone_tag_help(union_layout, cursors.offset, cursors.extra_offset, value)

\* NonRecursive arm of build_clone_tag_help, the block of the value's tag id
CloneNonRecursive(u, offset, extra_offset, tag_value) ==
    LET cursors == Cursors(offset, extra_offset)
        field_layouts == u.tags[tag_value.tag_id + 1]
        layout == LStruct(<<LStruct(field_layouts), tag_id_layout>>)
        data == StructVal(<<StructVal(tag_value.fields), Scalar>>)
    IN  Nested(build_clone(layout, data, cursors), cursors)

\* Recursive arm, the block of the value's tag id
CloneRecursive(u, offset, extra_offset, tag_value) ==
    LET tag_id == tag_value.tag_id
        field_layouts == u.tags[tag_id + 1]
        wr == write_pointer_with_tag_id(offset, extra_offset, u, tag_id)
        in_pointer == stores_tag_id_in_pointer(u)
        layout == IF in_pointer
                  THEN LStruct(field_layouts)
                  ELSE LStruct(<<LStruct(field_layouts), tag_id_layout>>)
        data == IF in_pointer
                THEN StructVal(tag_value.fields)
                ELSE StructVal(<<StructVal(tag_value.fields), Scalar>>)
        width == data_size(u)
        cursors == Cursors(extra_offset, extra_offset + width)
        answer == Nested(build_clone(layout, data, cursors), Cursors(offset, extra_offset))
    IN  Res(answer.ret, wr \o answer.writes, answer.calls)

\* NonNullableUnwrapped arm
CloneNonNullableUnwrapped(u, offset, extra_offset, tag_value) ==
    LET wr == build_copy(offset, PtrInt(extra_offset)).writes
        layout == LStruct(u.tags[1])
        width == data_size(u)
        cursors == Cursors(extra_offset, extra_offset + width)
        answer == Nested(build_clone(layout, StructVal(tag_value.fields), cursors),
                         Cursors(offset, extra_offset))
    IN  Res(answer.ret, wr \o answer.writes, answer.calls)

\* a null block that reserves a slot in the extra region
CloneNullableWrappedAdvancing(u, offset, extra_offset, tag_value) ==
    IF tag_value = NullPtr
    THEN Res(extra_offset + ptr_size, build_copy(offset, PtrInt(0)).writes, <<>>)
    ELSE LET i == tag_value.tag_id
             wr == write_pointer_with_tag_id(offset, extra_offset, u, i)
             fields == IF i >= u.nullable_id THEN u.tags[(i - 1) + 1] ELSE u.tags[i + 1]
             layout == LStruct(fields)
             cursors == Cursors(extra_offset, extra_offset + data_size(u))
             answer == Nested(build_clone(layout, StructVal(tag_value.fields), cursors),
                              Cursors(offset, extra_offset))
         IN  Res(answer.ret, wr \o answer.writes, answer.calls)

\* NullableWrapped arm: null_block, or the block of the value's tag id
CloneNullableWrapped(u, offset, extra_offset, tag_value) ==
    IF tag_value = NullPtr
    THEN Res(extra_offset, build_copy(offset, PtrInt(0)).writes, <<>>)
    ELSE LET i == tag_value.tag_id
             wr == write_pointer_with_tag_id(offset, extra_offset, u, i)
             fields == IF i >= u.nullable_id THEN u.tags[(i - 1) + 1] ELSE u.tags[i + 1]
             layout == LStruct(fields)
             width == data_size(u)
             cursors == Cursors(extra_offset, extra_offset + width)
             answer == Nested(build_clone(layout, StructVal(tag_value.fields), cursors),
                              Cursors(offset, extra_offset))
         IN  Res(answer.ret, wr \o answer.writes, answer.calls)

\* NullableUnwrapped arm: null_block or other_block
CloneNullableUnwrapped(u, offset, extra_offset, tag_value) ==
    IF tag_value = NullPtr
    THEN Res(extra_offset, build_copy(offset, PtrInt(0)).writes, <<>>)
    ELSE LET wr == build_copy(offset, PtrInt(extra_offset)).writes
             layout == LStruct(u.tags[1])
             cursors == Cursors(extra_offset, extra_offset + stack_size(layout))
             answer == Nested(build_clone(layout, StructVal(tag_value.fields), cursors),
                              Cursors(offset, extra_offset))
         IN  Res(answer.ret, wr \o answer.writes, answer.calls)

\* build_clone_tag_help: the body of the union's clone helper, run on its parameters
build_clone_tag_help(union_layout, offset, extra_offset, tag_value) ==
    CASE union_layout.variant = "NonRecursive" ->
            CloneNonRecursive(union_layout, offset, extra_offset, tag_value)
      [] union_layout.variant = "Recursive" ->
            CloneRecursive(union_layout, offset, extra_offset, tag_value)
      [] union_layout.variant = "NonNullableUnwrapped" ->
            CloneNonNullableUnwrapped(union_layout, offset, extra_offset, tag_value)
      [] union_layout.variant = "NullableWrapped" ->
            CloneNullableWrapped(union_layout, offset, extra_offset, tag_value)
      [] union_layout.variant = "NullableUnwrapped" ->
            CloneNullableUnwrapped(union_layout, offset, extra_offset, tag_value)

\* the element loop of the List arm, from element `index` (0-based) on
CloneElems(elem, elems, index, elements_start_offset, rest_offset, acc) ==
    IF index >= Len(elems)
    THEN Res(rest_offset, acc.writes, acc.calls)
    ELSE LET current_offset == elements_start_offset + stack_size(elem) * index
             r == Nested(build_clone(elem, elems[index + 1],
                                     Cursors(current_offset, rest_offset)), acc.caller)
         IN  CloneElems(elem, elems, index + 1, elements_start_offset, r.ret,
                        [caller |-> acc.caller, writes |-> acc.writes \o r.writes,
                         calls |-> acc.calls \o r.calls])

\* a List arm whose rest cursor starts at the elements' slots, not after them
CloneListRestAtElements(cursors, value, elem) ==
    LET len == Len(value.elems)
        w1 == build_copy(cursors.offset, PtrInt(cursors.extra_offset))
        w2 == build_copy(w1.ret, PtrInt(len))
        w3 == build_copy(w2.ret, PtrInt(len))
        header == w1.writes \o w2.writes \o w3.writes
    IN  IF safe_to_memcpy(elem)
        THEN Res(cursors.extra_offset,
                 header \o <<Wr(cursors.extra_offset, Data(stack_size(elem) * len))>>, <<>>)
        ELSE CloneElems(elem, value.elems, 0, cursors.extra_offset, cursors.extra_offset,
                        [caller |-> cursors, writes |-> header, calls |-> <<>>])

\* Builtin::List arm of build_clone_builtin
CloneList(cursors, value, elem) ==
    LET len == Len(value.elems)
        w1 == build_copy(cursors.offset, PtrInt(cursors.extra_offset))
        w2 == build_copy(w1.ret, PtrInt(len))
        w3 == build_copy(w2.ret, PtrInt(len))
        header == w1.writes \o w2.writes \o w3.writes
        element_width == stack_size(elem)
        elements_width == element_width * len
        elements_start_offset == cursors.extra_offset
    IN  IF safe_to_memcpy(elem)
        THEN Res(elements_start_offset + elements_width,
                 header \o <<Wr(elements_start_offset, Data(elements_width))>>, <<>>)
        ELSE LET rest_start_offset == cursors.extra_offset + len * element_width
             IN  CloneElems(elem, value.elems, 0, elements_start_offset, rest_start_offset,
                            [caller |-> cursors, writes |-> header, calls |-> <<>>])

build_clone_builtin(cursors, value, builtin) ==
    CASE builtin.builtin \in {"Int", "Bool"} ->
            Res(cursors.extra_offset,
                build_copy(cursors.offset, Data(builtin.width)).writes, <<>>)
      [] builtin.builtin = "Str" ->
            str_clone_to(value, cursors.offset, cursors.extra_offset)
      [] builtin.builtin = "List" -> CloneList(cursors, value, builtin.elem)

(***************************************************************************)
(* expect.rs at generation time: what build_clone emits, and into which    *)
(* function of env.module.  `events` lists, in order, every function added *)
(* to the module and every instruction emitted, each with the function it  *)
(* is emitted into.                                                        *)
(***************************************************************************)
\* the name of a union's clone helper: layout_ids.get(Symbol::CLONE, &layout), one id
\* per layout
fn_name(union_layout) == [symbol |-> "CLONE", layout |-> LUnion(union_layout)]

\* the function clone_to_shared_memory is emitting into
EntryFn == [symbol |-> "expect", layout |-> LLambdaSet]
NoFn == [symbol |-> "none", layout |-> LLambdaSet]

\* `roots` lists the layouts generation was started for
EmptyModule == [functions |-> <<>>, events |-> <<>>, diverged |-> FALSE, roots |-> <<>>]

\* a lookup that only sees the function added last
get_function_last_only(m, name) ==
    m.functions # <<>> /\ m.functions[Len(m.functions)] = name

\* env.module.get_function(fn_name)
get_function(m, name) == \E i \in DOMAIN m.functions : m.functions[i] = name

\* a function that is created but not yet entered in the module
add_func_detached(m, name) ==
    [m EXCEPT !.events = Append(@, [fn |-> name, op |-> "add_func", callee |-> NoFn])]

\* add_func(env.context, env.module, &fn_name, ..)
add_func(m, name) ==
    [m EXCEPT !.functions = Append(@, name),
              !.events = Append(@, [fn |-> name, op |-> "add_func", callee |-> NoFn])]

\* one instruction built at the builder's position, which is inside function fn
Emit(m, fn, op) == [m EXCEPT !.events = Append(@, [fn |-> fn, op |-> op, callee |-> NoFn])]
EmitAll(m, fn, ops) ==
    [m EXCEPT !.events = @ \o [i \in DOMAIN ops |-> [fn |-> fn, op |-> ops[i], callee |-> NoFn]]]
EmitCall(m, fn, callee) ==
    [m EXCEPT !.events = Append(@, [fn |-> fn, op |-> "call", callee |-> callee])]

\* instructions of write_pointer_with_tag_id
GenWritePointerWithTagId(u) ==
    IF stores_tag_id_in_pointer(u) THEN <<"store", "store">> ELSE <<"store">>

RECURSIVE GenBuildClone(_, _, _, _), GenBuildCloneStruct(_, _, _, _),
          GenCloneFields(_, _, _, _, _), GenBuildCloneTag(_, _, _, _),
          GenBuildCloneTagHelp(_, _, _, _), GenTagBlocks(_, _, _, _, _, _),
          GenBuildCloneBuiltin(_, _, _, _)

\* build_clone, generating into function fn; depth is the nesting of generator calls
GenBuildClone(layout, m, fn, depth) ==
    IF depth > MaxGenDepth THEN [m EXCEPT !.diverged = TRUE]
    ELSE CASE layout.kind = "Builtin" -> GenBuildCloneBuiltin(layout, m, fn, depth + 1)
           [] layout.kind = "Struct" ->
                 GenBuildCloneStruct(layout.field_layouts, m, fn, depth + 1)
           [] layout.kind = "LambdaSet" -> m
           [] layout.kind = "Union" ->
                 IF safe_to_memcpy(layout) THEN Emit(m, fn, "store")
                 ELSE GenBuildCloneTag(layout.union, m, fn, depth + 1)
           [] layout.kind = "Boxed" ->
                 GenBuildClone(layout.inner, EmitAll(m, fn, <<"store", "load">>), fn,
                               depth + 1)
           [] layout.kind = "RecursivePointer" ->
                 GenBuildCloneTag(RecUnion(layout.rec), m, fn, depth + 1)

GenCloneFields(field_layouts, i, m, fn, depth) ==
    IF i > Len(field_layouts) THEN m
    ELSE GenCloneFields(field_layouts, i + 1,
                        GenBuildClone(field_layouts[i], Emit(m, fn, "extract"), fn, depth),
                        fn, depth)

GenBuildCloneStruct(field_layouts, m, fn, depth) ==
    IF safe_to_memcpy(LStruct(field_layouts)) THEN Emit(m, fn, "store")
    ELSE GenCloneFields(field_layouts, 1, m, fn, depth)

\* build_clone_tag: find or create the union's helper, then call it
GenBuildCloneTag(union_layout, m, fn, depth) ==
    LET name == fn_name(union_layout)
    IN  IF depth > MaxGenDepth THEN [m EXCEPT !.diverged = TRUE]
        ELSE IF get_function(m, name) THEN EmitCall(m, fn, name)
        ELSE EmitCall(GenBuildCloneTagHelp(union_layout, add_func(m, name), name, depth + 1),
                      fn, name)

\* the per-tag blocks of the NonRecursive, Recursive and NullableWrapped arms: tag ids
\* ids[k..], each block cloning the struct layout layouts[k] and returning
GenTagBlocks(u, layouts, k, m, fn, depth) ==
    IF k > Len(layouts) THEN m
    ELSE LET pre == IF u.variant = "NonRecursive"
                    THEN <<"load_tag_data">>
                    ELSE GenWritePointerWithTagId(u) \o <<"clear_tag_id", "load_tag_data">>
             m1 == GenBuildClone(layouts[k], EmitAll(m, fn, pre), fn, depth)
         IN  GenTagBlocks(u, layouts, k + 1, Emit(m1, fn, "ret"), fn, depth)

\* the switch that ends the tag dispatch: cases.pop() gives the default block
GenSwitch(m, fn, cases) ==
    IF cases > 0 THEN Emit(m, fn, "switch") ELSE Emit(m, fn, "unreachable")

\* the struct layout cloned in the block of each tag
TagBlockLayouts(u) ==
    [k \in DOMAIN u.tags |->
        IF u.variant = "NonRecursive"
           \/ (u.variant = "Recursive" /\ ~stores_tag_id_in_pointer(u))
        THEN LStruct(<<LStruct(u.tags[k]), tag_id_layout>>)
        ELSE LStruct(u.tags[k])]

\* an empty union dispatched like any other NonRecursive union
GenEmptyUnionDispatched(m, fn) == GenSwitch(EmitAll(m, fn, <<"get_tag_id", "br">>), fn, 0)

\* the NonRecursive(&[]) arm
GenEmptyUnion(m, fn) == Emit(m, fn, "unreachable")

\* build_clone_tag_help: the body of function fn, the clone helper of union_layout
GenBuildCloneTagHelp(union_layout, m, fn, depth) ==
    LET u == union_layout
    IN  CASE u.variant = "NonRecursive" /\ u.tags = <<>> -> GenEmptyUnion(m, fn)
          [] u.variant = "NonRecursive" /\ u.tags # <<>> ->
                GenSwitch(GenTagBlocks(u, TagBlockLayouts(u), 1,
                                       EmitAll(m, fn, <<"get_tag_id", "br">>), fn, depth),
                          fn, Len(u.tags))
          [] u.variant = "Recursive" ->
                GenSwitch(GenTagBlocks(u, TagBlockLayouts(u), 1,
                                       EmitAll(m, fn, <<"get_tag_id", "br">>), fn, depth),
                          fn, Len(u.tags))
          [] u.variant = "NonNullableUnwrapped" ->
                Emit(GenBuildClone(LStruct(u.tags[1]),
                                   EmitAll(m, fn, <<"store", "load_tag_data">>), fn, depth),
                     fn, "ret")
          [] u.variant = "NullableWrapped" ->
                LET head == EmitAll(m, fn, <<"get_tag_id", "is_null", "cond_br">>)
                    blocks == GenTagBlocks(u, TagBlockLayouts(u), 1, head, fn, depth)
                    switch == GenSwitch(blocks, fn, Len(u.tags))
                IN  EmitAll(switch, fn, <<"store", "ret">>)
          [] u.variant = "NullableUnwrapped" ->
                LET head == EmitAll(m, fn, <<"is_null", "cond_br", "store", "ret">>)
                    other == GenBuildClone(LStruct(u.tags[1]),
                                           EmitAll(head, fn, <<"store", "load_tag_data">>),
                                           fn, depth)
                IN  Emit(other, fn, "ret")

\* build_clone_builtin
GenBuildCloneBuiltin(builtin, m, fn, depth) ==
    CASE builtin.builtin \in {"Int", "Bool"} -> Emit(m, fn, "store")
      [] builtin.builtin = "Str" -> Emit(m, fn, "str_clone_to")
      [] builtin.builtin = "List" ->
            LET header == EmitAll(m, fn, <<"store", "store", "store">>)
            IN  IF safe_to_memcpy(builtin.elem) THEN Emit(header, fn, "memcpy")
                ELSE Emit(GenBuildClone(builtin.elem, Emit(header, fn, "loop"), fn, depth),
                          fn, "loop_end")

(***************************************************************************)
(* expect.rs: clone_to_shared_memory.  The buffer's first two pointer-width *)
(* words are the frame count and the next free offset; a frame record      *)
(* lists the buffer writes of one append in order, each tagged with the    *)
(* part of the frame it belongs to.                                        *)
(***************************************************************************)
\* the shared buffer is not in use
NoShm == [active |-> FALSE]

NoFrame == [appended |-> FALSE]
NoSeen == [looked |-> FALSE]

\* the buffer as the parent process hands it over: no frames, free space after the
\* two state words
InitialOffset == 2 * ptr_size

\* read_state: (count, offset)
read_state(buffer) == [count |-> buffer.count, offset |-> buffer.next_free]

Part(writes, part) ==
    [i \in DOMAIN writes |->
        [at |-> writes[i].at, width |-> writes[i].width, kind |-> writes[i].kind,
         n |-> writes[i].n, part |-> part]]

\* write_header: region start, region end and module id, as three 32-bit values
write_header(offset, region, module_id) ==
    LET w1 == build_copy(offset, I32(region.start))
        w2 == build_copy(w1.ret, I32(region.end))
        w3 == build_copy(w2.ret, I32(module_id))
    IN  [ret |-> w3.ret, writes |-> w1.writes \o w2.writes \o w3.writes]

\* the loop over lookups of clone_to_shared_memory, from lookup i on
RECURSIVE CloneLookups(_, _, _, _), CloneLookupsAfter(_, _, _, _, _)
CloneLookups(lookups, i, offset, acc) ==
    IF i > Len(lookups) THEN [acc EXCEPT !.offset = offset]
    ELSE CloneLookupsAfter(lookups, i, offset, acc,
             build_clone(lookups[i].layout, lookups[i].value,
                         Cursors(offset, offset + stack_size(lookups[i].layout))))

\* the rest of one iteration, once build_clone has returned r
CloneLookupsAfter(lookups, i, offset, acc, r) ==
    CloneLookups(lookups, i + 1, r.ret,
                 [lookup_starts |-> Append(acc.lookup_starts, offset),
                  rets |-> Append(acc.rets, r.ret),
                  writes |-> acc.writes \o r.writes,
                  offset |-> offset])

\* a table whose entries are two pointer widths apart
RECURSIVE WriteLookupTableWide(_, _, _, _)
WriteLookupTableWide(lookup_starts, lookup_variables, i, offset) ==
    IF i > Len(lookup_starts) \/ i > Len(lookup_variables) THEN <<>>
    ELSE build_copy(offset, PtrInt(lookup_starts[i])).writes
         \o <<Wr(offset + ptr_size, I32(lookup_variables[i]))>>
         \o WriteLookupTableWide(lookup_starts, lookup_variables, i + 1,
                                 offset + 2 * ptr_size)

\* the loop that fills the lookup table: (lookup_start, lookup_var) pairs from
\* after_header on
RECURSIVE WriteLookupTable(_, _, _, _)
WriteLookupTable(lookup_starts, lookup_variables, i, offset) ==
    IF i > Len(lookup_starts) \/ i > Len(lookup_variables) THEN <<>>
    ELSE build_copy(offset, PtrInt(lookup_starts[i])).writes
         \o <<Wr(offset + ptr_size, I32(lookup_variables[i]))>>
         \o WriteLookupTable(lookup_starts, lookup_variables, i + 1, offset + ptr_size + 4)

\* a write_state that passes the table cursor instead of the values' end
StateOffsetAfterTable(after_header, space_for_offsets, values_end) ==
    after_header + space_for_offsets

\* the offset clone_to_shared_memory hands to write_state: the outer `offset`
StateOffset(after_header, space_for_offsets, values_end) == values_end

\* clone_to_shared_memory after the loop over lookups has left `values`: the lookup
\* table, and what is handed to write_state
clone_to_shared_memory_table(state, header, space_for_offsets, lookups, lookup_variables, values) ==
    LET after_header == header.ret
        table == WriteLookupTable(values.lookup_starts, lookup_variables, 1, after_header)
    IN  [appended |-> TRUE, start |-> state.offset, count_read |-> state.count,
         lookups |-> lookups, lookup_variables |-> lookup_variables,
         after_header |-> after_header, lookup_starts |-> values.lookup_starts,
         rets |-> values.rets,
         writes |-> Part(header.writes, "header") \o Part(values.writes, "value")
                    \o Part(table, "table"),
         new_count |-> state.count + 1,
         new_offset |-> StateOffset(after_header, space_for_offsets, values.offset)]

\* clone_to_shared_memory up to its call of write_state
clone_to_shared_memory(buffer, region, module_id, lookups, lookup_variables) ==
    LET state == read_state(buffer)
        header == write_header(state.offset, region, module_id)
        after_header == header.ret
        space_for_offsets == Len(lookups) * ptr_size + Len(lookups) * 4
    IN  clone_to_shared_memory_table(
            state, header, space_for_offsets, lookups, lookup_variables,
            CloneLookups(lookups, 1, after_header + space_for_offsets,
                         [lookup_starts |-> <<>>, rets |-> <<>>, writes |-> <<>>,
                          offset |-> after_header + space_for_offsets]))

(***************************************************************************)
(* The state machines                                                      *)
(***************************************************************************)
vars ==
    <<ptr_size, rc_procs_to_generate, ident_ids, log, run, clone, llvm_module, shm, threads>>

NoClone == [cloned |-> FALSE]

Init ==
    RcInit /\ clone = NoClone /\ llvm_module = EmptyModule /\ shm = NoShm /\ threads = NoThreads
Next == RcNext /\ UNCHANGED <<clone, llvm_module, shm, threads>>
Spec == Init /\ [][Next]_vars

\* the first offset a value can be cloned to: after the two state words and a
\* frame header of three 32-bit values
FirstOffset == 2 * ptr_size + 12

CloneInit ==
    /\ ptr_size \in {4, 8}
    /\ rc_procs_to_generate = <<>>
    /\ ident_ids = <<>>
    /\ log = <<>>
    /\ run = NoRun
    /\ clone = NoClone
    /\ llvm_module = EmptyModule
    /\ shm = NoShm
    /\ threads = NoThreads

\* run the code build_clone generates for a layout on a value of the layout, once
BuildClone ==
    /\ clone = NoClone
    /\ \E layout \in CloneLayouts :
       \E value \in ValuesOf(layout, MaxDepth),
          offset \in FirstOffset..(FirstOffset + MaxShift), gap \in 0..MaxGap :
            LET cursors == Cursors(offset, offset + stack_size(layout) + gap)
            IN  clone' = [cloned |-> TRUE, layout |-> layout, value |-> value,
                          cursors |-> cursors,
                          out |-> build_clone(layout, value, cursors)]
    /\ UNCHANGED <<rcvars, llvm_module, shm, threads>>

CloneNext == BuildClone
SpecClone == CloneInit /\ [][CloneNext]_vars

\* the layouts clone code is generated for
EmptyUnion == NonRecursive(<<>>)
GenLayouts ==
    CloneLayouts \cup {LUnion(RecUnion("Ping")), LUnion(PongUnion), LUnion(EmptyUnion),
                       LList(LUnion(RecUnion("Expr"))),
                       LStruct(<<LUnion(RecUnion("Expr")), LUnion(RecUnion("Expr"))>>)}
GenUnions == {l.union : l \in {x \in GenLayouts : x.kind = "Union"}}

GenInit == CloneInit

\* build_clone is called, while a function is being generated, for a value of layout
GenerateClone ==
    /\ Len(llvm_module.roots) < MaxBuilds
    /\ \E layout \in GenLayouts :
         llvm_module' =
            [GenBuildClone(layout, llvm_module, EntryFn, 0)
                EXCEPT !.roots = Append(@, layout)]
    /\ UNCHANGED <<rcvars, clone, shm, threads>>

\* build_clone_tag is called for a union value, whatever safe_to_memcpy says of it
GenerateCloneTag ==
    /\ Len(llvm_module.roots) < MaxBuilds
    /\ \E u \in GenUnions :
         llvm_module' =
            [GenBuildCloneTag(u, llvm_module, EntryFn, 0)
                EXCEPT !.roots = Append(@, LUnion(u))]
    /\ UNCHANGED <<rcvars, clone, shm, threads>>

GenNext == GenerateClone \/ GenerateCloneTag
SpecGen == GenInit /\ [][GenNext]_vars

\* the variables an expect can capture: a layout, a value of it, and the index of
\* its type variable
ShmLookups ==
    {[layout |-> I64, value |-> Scalar, var |-> 5],
     [layout |-> LStr, value |-> BigStr(1), var |-> 6],
     [layout |-> LStruct(<<LStr, PairI64>>),
      value |-> StructVal(<<BigStr(1), StructVal(<<Scalar, Scalar>>)>>), var |-> 7]}

RECURSIVE LookupSeqs(_)
LookupSeqs(n) ==
    IF n = 0 THEN {<<>>}
    ELSE LookupSeqs(n - 1)
         \cup {Append(q, l) : q \in {x \in LookupSeqs(n - 1) : Len(x) = n - 1},
                              l \in ShmLookups}

StateWords == [count |-> shm.count, offset |-> shm.next_free]

ShmInit ==
    /\ ptr_size \in {4, 8}
    /\ rc_procs_to_generate = <<>>
    /\ ident_ids = <<>>
    /\ log = <<>>
    /\ run = NoRun
    /\ clone = NoClone
    /\ llvm_module = EmptyModule
    /\ threads = NoThreads
    /\ shm = [active |-> TRUE, count |-> 0, next_free |-> InitialOffset, pc |-> "idle",
              frame |-> NoFrame, seen |-> NoSeen,
              committed |-> [count |-> 0, offset |-> InitialOffset]]

\* an expect fails: the generated clone_to_shared_memory code runs up to write_state
CloneToSharedMemory ==
    /\ shm.pc = "idle"
    /\ shm.count < MaxFrames
    /\ \E lookups \in LookupSeqs(MaxLookups) :
         shm' = [shm EXCEPT
                   !.pc = "store_count",
                   !.frame = clone_to_shared_memory(
                                 shm, [start |-> 1, end |-> 2], 3, lookups,
                                 [i \in DOMAIN lookups |-> lookups[i].var])]
    /\ UNCHANGED <<rcvars, clone, llvm_module, threads>>

\* write_state, first store: the frame count
StoreCount ==
    /\ shm.pc = "store_count"
    /\ shm' = [shm EXCEPT
                 !.pc = "store_offset",
                 !.count = shm.frame.new_count,
                 !.frame.writes =
                     @ \o Part(<<Wr(0, PtrInt(shm.frame.new_count))>>, "state")]
    /\ UNCHANGED <<rcvars, clone, llvm_module, threads>>

\* write_state, second store: the next free offset
StoreOffset ==
    /\ shm.pc = "store_offset"
    /\ shm' = [shm EXCEPT
                 !.pc = "idle",
                 !.next_free = shm.frame.new_offset,
                 !.frame.writes =
                     @ \o Part(<<Wr(ptr_size, PtrInt(shm.frame.new_offset))>>, "state"),
                 !.committed = [count |-> shm.count, offset |-> shm.frame.new_offset]]
    /\ UNCHANGED <<rcvars, clone, llvm_module, threads>>

\* another process loads the two state words of the buffer
ReaderLoadsState ==
    /\ shm.active
    /\ shm' = [shm EXCEPT
                 !.seen = [looked |-> TRUE, count |-> shm.count, offset |-> shm.next_free,
                           committed |-> shm.committed,
                           pending |-> IF shm.pc = "idle" THEN shm.committed
                                       ELSE [count |-> shm.frame.new_count,
                                             offset |-> shm.frame.new_offset]]]
    /\ shm'.seen # shm.seen
    /\ UNCHANGED <<rcvars, clone, llvm_module, threads>>

ShmNext == CloneToSharedMemory \/ StoreCount \/ StoreOffset \/ ReaderLoadsState
SpecShm == ShmInit /\ [][ShmNext]_vars

(***************************************************************************)
(* Threads of the compiled program.  The helpers generated for (Str, Inc)  *)
(* and (Str, Dec) are called by several threads on the same heap-backed    *)
(* string; a thread performs the low-level calls of the body one at a      *)
(* time, and RefCountInc / RefCountDec are atomic (utils.zig).             *)
(***************************************************************************)
\* the refcount of the shared string before any thread runs: no decrement frees it
InitialRefcount == MaxThreads + 1

\* the effect of one low-level call on the refcount word
RcPrimitive(count, call) ==
    CASE call.op = "RefCountInc" -> count + call.args[2]
      [] call.op = "RefCountDec" -> count - 1
      [] OTHER -> count

\* the state after requests for Inc, Dec and DecRef of a string and generate_procs
ThreadsInit ==
    /\ ptr_size \in {4, 8}
    /\ LET following == Ret(Structure)
           inc == expand_refcount_stmt(<<>>, <<>>, ptr_size, LAYOUT_STR,
                                       ModInc(Structure, 1), following)
           dec == expand_refcount_stmt(inc.queue, inc.ids, ptr_size, LAYOUT_STR,
                                       ModDec(Structure), following)
           decref == expand_refcount_stmt(dec.queue, dec.ids, ptr_size, LAYOUT_STR,
                                          ModDecRef(Structure), following)
           generated == generate_procs(decref.queue, decref.ids, ptr_size)
       IN  /\ rc_procs_to_generate = <<>>
           /\ ident_ids = generated.ids
           /\ \E len \in 0..MaxLen :
                threads = [active |-> TRUE, queue |-> decref.queue,
                           procs |-> generated.procs, decref |-> decref.stmt,
                           string |-> StrValue(len), refcount |-> InitialRefcount,
                           started |-> <<>>]
    /\ log = <<>>
    /\ run = NoRun
    /\ clone = NoClone
    /\ llvm_module = EmptyModule
    /\ shm = NoShm

\* a thread calls a generated helper on the shared string
CallHelper ==
    /\ threads.active
    /\ Len(threads.started) < MaxThreads
    /\ \E i \in DOMAIN threads.procs :
         LET proc == threads.procs[i]
         IN  \E amount \in IF Len(proc.args) = 2 THEN 1..MaxAmount ELSE {0} :
               threads' = [threads EXCEPT !.started =
                             Append(@, [proc |-> i, amount |-> amount, pc |-> 1,
                                        calls |-> RunProc(proc, threads.string, amount).calls])]
    /\ UNCHANGED <<rcvars, clone, llvm_module, shm>>

\* a thread performs the next low-level call of the helper body it is in
ThreadStep ==
    /\ threads.active
    /\ \E t \in DOMAIN threads.started :
         LET th == threads.started[t]
         IN  /\ th.pc <= Len(th.calls)
             /\ threads' = [threads EXCEPT
                              !.refcount = RcPrimitive(@, th.calls[th.pc]),
                              !.started[t].pc = @ + 1]
    /\ UNCHANGED <<rcvars, clone, llvm_module, shm>>

ThreadsNext == CallHelper \/ ThreadStep
SpecThreads == ThreadsInit /\ [][ThreadsNext]_vars

(***************************************************************************)
(* Reading the emitted IR                                                  *)
(***************************************************************************)
IsExpand(e) == e.call = "expand_refcount_stmt"
IsGenerate(e) == e.call = "generate_procs"

\* the statements expand_refcount_stmt put in front of `following`
RECURSIVE Emitted(_, _)
Emitted(stmt, following) ==
    IF stmt = following THEN <<>> ELSE <<stmt>> \o Emitted(stmt.next, following)

IsByName(expr) == expr.expr = "Call" /\ expr.call_type.kind = "ByName"
IsLowLevel(expr) == expr.expr = "Call" /\ expr.call_type.kind = "LowLevel"

\* the by-name calls a request emitted, and the helper symbols they call
HelperCallsOf(e) ==
    LET em == Emitted(e.stmt, e.following)
    IN  {em[k].expr : k \in {k \in DOMAIN em : IsByName(em[k].expr)}}

HelpersCalled(e) == {c.call_type.name : c \in HelperCallsOf(e)}

\* every Let of a statement tree
RECURSIVE LetsOf(_)
LetsOf(stmt) ==
    CASE stmt.stmt = "Let" -> {stmt} \cup LetsOf(stmt.next)
      [] stmt.stmt = "Ret" -> {}
      [] stmt.stmt = "Switch" ->
            UNION {LetsOf(stmt.branches[i].stmt) : i \in DOMAIN stmt.branches}
            \cup LetsOf(stmt.default_branch.stmt)

\* no generate_procs call among calls i..j of the log
NoGenerateBetween(i, j) == \A k \in i..j : ~IsGenerate(log[k])

SamePair(a, b) == a.layout = b.layout /\ a.modify.rc = b.modify.rc

IsStrRequest(e) ==
    IsExpand(e) /\ e.layout = LAYOUT_STR /\ e.modify.rc \in {"Inc", "Dec"}

(***************************************************************************)
(* C1: with no generate_procs in between, two requests for the same        *)
(* supported layout and the same operation (Inc or Dec) call the same      *)
(* helper symbol; the first returns Some((symbol, signature)) for that     *)
(* symbol and every later one returns None.                                *)
(***************************************************************************)
C1_SameHelperAndOneRegistration ==
    /\ \A i, j \in DOMAIN log :
         (i < j /\ IsStrRequest(log[i]) /\ IsStrRequest(log[j])
              /\ SamePair(log[i], log[j]) /\ NoGenerateBetween(i, j))
         => /\ Cardinality(HelpersCalled(log[i])) = 1
            /\ HelpersCalled(log[i]) = HelpersCalled(log[j])
            /\ log[j].new_proc_info = None
    /\ \A i \in DOMAIN log :
         (IsStrRequest(log[i])
              /\ ~\E k \in 1..(i - 1) :
                    IsStrRequest(log[k]) /\ SamePair(log[k], log[i])
                    /\ NoGenerateBetween(k, i))
         => /\ log[i].new_proc_info.some
            /\ HelpersCalled(log[i]) = {log[i].new_proc_info.value.symbol}
            /\ log[i].new_proc_info.value.layout.result = LAYOUT_UNIT

C1_Witness ==
    \E i, j \in DOMAIN log :
        /\ i < j /\ IsStrRequest(log[i]) /\ IsStrRequest(log[j])
        /\ SamePair(log[i], log[j]) /\ NoGenerateBetween(i, j)
        /\ log[i].new_proc_info.some

(***************************************************************************)
(* C2: over any sequence of requests and generate_procs calls, each        *)
(* (layout, operation) pair gets at most one helper symbol and at most one *)
(* Proc is ever returned by generate_procs for it.                         *)
(***************************************************************************)
PairSymbols(layout, op) ==
    UNION {HelpersCalled(log[i]) :
             i \in {i \in DOMAIN log : IsExpand(log[i]) /\ log[i].layout = layout
                                       /\ log[i].modify.rc = op}}

ProcsReturnedFor(symbols) ==
    {<<k, n>> \in (DOMAIN log) \X (1..MaxCalls) :
        /\ IsGenerate(log[k])
        /\ n \in DOMAIN log[k].procs
        /\ log[k].procs[n].name \in symbols}

C2_OneHelperPerPairEver ==
    \A op \in {"Inc", "Dec"} :
        /\ Cardinality(PairSymbols(LAYOUT_STR, op)) <= 1
        /\ Cardinality(ProcsReturnedFor(PairSymbols(LAYOUT_STR, op))) <= 1

(***************************************************************************)
(* C3: a request to Inc or Dec a layout other than the string builtin      *)
(* returns `following` itself and no new-proc info, leaves                 *)
(* rc_procs_to_generate unchanged, and no helper is ever queued or         *)
(* generated for such a layout.                                            *)
(***************************************************************************)
IsUnsupportedRequest(e) ==
    IsExpand(e) /\ e.layout # LAYOUT_STR /\ e.modify.rc \in {"Inc", "Dec"}

C3_UnsupportedLayoutIsSkipped ==
    /\ \A i \in DOMAIN log :
         IsUnsupportedRequest(log[i])
         => /\ log[i].stmt = log[i].following
            /\ log[i].new_proc_info = None
            /\ log[i].queue_after = log[i].queue_before
    /\ \A i \in DOMAIN log : \A k \in DOMAIN log[i].queue_after :
         log[i].queue_after[k].layout = LAYOUT_STR
    /\ \A i \in DOMAIN log :
         IsGenerate(log[i])
         => /\ ~log[i].panic
            /\ \A n \in DOMAIN log[i].procs : log[i].procs[n].args[1].layout = LAYOUT_STR

C3_Witness ==
    \E i, j \in DOMAIN log :
        /\ i < j
        /\ IsUnsupportedRequest(log[i])
        /\ log[i].layout = StructStrInt
        /\ IsGenerate(log[j])

(***************************************************************************)
(* C4: for every newly registered helper, the returned signature has       *)
(* result unit and argument layouts equal to the arg_layouts of the call   *)
(* emitted at the use site and to the args of the Proc generate_procs      *)
(* later produces for the symbol: [Str, isize] for Inc, [Str] for Dec.     *)
(***************************************************************************)
ArgLayoutsOf(proc) == [k \in DOMAIN proc.args |-> proc.args[k].layout]

C4_SignatureMatchesCallAndProc ==
    \A i \in DOMAIN log :
        (IsExpand(log[i]) /\ log[i].new_proc_info.some)
        => LET info == log[i].new_proc_info.value
               expected == IF log[i].modify.rc = "Inc"
                           THEN <<LAYOUT_STR, LayoutIsize(ptr_size)>>
                           ELSE <<LAYOUT_STR>>
           IN  /\ info.layout.result = LAYOUT_UNIT
               /\ info.layout.arguments = expected
               /\ \A c \in HelperCallsOf(log[i]) :
                    c.call_type.arg_layouts = info.layout.arguments
               /\ \A j \in DOMAIN log :
                    (j > i /\ IsGenerate(log[j]))
                    => \A n \in DOMAIN log[j].procs :
                         log[j].procs[n].name = info.symbol
                         => ArgLayoutsOf(log[j].procs[n]) = info.layout.arguments

(***************************************************************************)
(* C5: running a generated Str helper on a string whose length field, read *)
(* as isize, is negative performs no RefCountGetPtr, RefCountInc or        *)
(* RefCountDec call and returns unit; when it is >= 0 exactly one          *)
(* RefCountInc/RefCountDec call is performed, the one of the helper's      *)
(* operation, on the refcount pointer derived from field 0.                *)
(***************************************************************************)
RcOps == {"RefCountGetPtr", "RefCountInc", "RefCountDec"}

\* the operation the last generate_procs generated proc for
OpOfProc(proc) ==
    LET q == log[Len(log)].queue_before
    IN  q[CHOOSE k \in DOMAIN q : q[k].symbol = proc.name].op

RunCalls(ops) ==
    LET cs == run.result.calls
    IN  {k \in DOMAIN cs : cs[k].op \in ops}

C5_SmallStringSkip ==
    run.ran
    => LET cs == run.result.calls
           modifying == RunCalls({"RefCountInc", "RefCountDec"})
       IN  IF run.len < 0
           THEN RunCalls(RcOps) = {} /\ run.result.ret = Unit
           ELSE /\ Cardinality(modifying) = 1
                /\ Cardinality(RunCalls({"RefCountGetPtr"})) = 1
                /\ \A k \in modifying :
                     /\ cs[k].op = (IF OpOfProc(run.proc) = "Inc" THEN "RefCountInc"
                                    ELSE "RefCountDec")
                     /\ cs[k].args[1] = [rc_ptr_of |-> StrValue(run.len)[1]]

C5_Witness ==
    /\ run.ran
    /\ run.len = 0
    /\ OpOfProc(run.proc) = "Dec"
    /\ Cardinality(RunCalls({"RefCountDec"})) = 1

(***************************************************************************)
(* C6 (as claimed): expanding a DecRef request, for any layout, adds no    *)
(* entry to the helper cache, returns no new-proc info, and produces       *)
(* exactly: bind rc_ptr to RefCountGetPtr(structure), call RefCountDec on  *)
(* rc_ptr, continue with `following`.                                      *)
(***************************************************************************)
IsDecRefRequest(e) == IsExpand(e) /\ e.modify.rc = "DecRef"

\* the inline sequence of the DecRef expansion
IsInlineDecRef(e) ==
    LET em == Emitted(e.stmt, e.following)
    IN  /\ Len(em) = 2
        /\ em[1].expr = CallLowLevel("RefCountGetPtr", <<e.modify.structure>>)
        /\ IsLowLevel(em[2].expr)
        /\ em[2].expr.call_type.op = "RefCountDec"
        /\ em[2].expr.arguments[1] = em[1].symbol
        /\ em[2].next = e.following

C6_DecRefInlineForAnyLayout ==
    \A i \in DOMAIN log :
        IsDecRefRequest(log[i])
        => /\ log[i].queue_after = log[i].queue_before
           /\ log[i].new_proc_info = None
           /\ IsInlineDecRef(log[i])

(***************************************************************************)
(* C6 (amended): expanding a DecRef request, for any layout, adds no entry *)
(* to the helper cache and returns no new-proc info; for the string layout *)
(* it produces the inline sequence above, and for any other layout it      *)
(* returns `following` unchanged.                                          *)
(***************************************************************************)
C6_DecRefInlineForSupportedLayout ==
    \A i \in DOMAIN log :
        IsDecRefRequest(log[i])
        => /\ log[i].queue_after = log[i].queue_before
           /\ log[i].new_proc_info = None
           /\ IF log[i].layout = LAYOUT_STR
              THEN IsInlineDecRef(log[i])
              ELSE log[i].stmt = log[i].following

C6_Witness ==
    \E i, j \in DOMAIN log :
        /\ IsDecRefRequest(log[i]) /\ log[i].layout = LAYOUT_STR
        /\ log[i].queue_before # <<>>
        /\ IsDecRefRequest(log[j]) /\ log[j].layout # LAYOUT_STR

(***************************************************************************)
(* C7: every RefCountDec call emitted, in the inline DecRef expansion and  *)
(* in generated helper bodies, passes exactly (refcount pointer,           *)
(* pointer-width alignment constant); every RefCountInc call passes        *)
(* exactly (refcount pointer, amount).                                     *)
(***************************************************************************)
\* the expression a symbol is bound to by a Let of the statement tree
BoundIn(stmt, sym) ==
    {l.expr : l \in {l \in LetsOf(stmt) : l.symbol = sym}}

IsRcPointer(stmt, sym) ==
    \E b \in BoundIn(stmt, sym) :
        IsLowLevel(b) /\ b.call_type.op = "RefCountGetPtr"

WellFormedRcCalls(stmt) ==
    \A l \in LetsOf(stmt) :
        IsLowLevel(l.expr)
        => LET args == l.expr.arguments
           IN  /\ l.expr.call_type.op = "RefCountDec"
                  => /\ Len(args) = 2
                     /\ IsRcPointer(stmt, args[1])
                     /\ BoundIn(stmt, args[2]) = {LiteralInt(ptr_size)}
               /\ l.expr.call_type.op = "RefCountInc"
                  => /\ Len(args) = 2
                     /\ IsRcPointer(stmt, args[1])
                     /\ args[2] = ARG_2

C7_RcPrimitiveArguments ==
    \A i \in DOMAIN log :
        /\ IsExpand(log[i]) => WellFormedRcCalls(log[i].stmt)
        /\ IsGenerate(log[i])
           => \A n \in DOMAIN log[i].procs : WellFormedRcCalls(log[i].procs[n].body)

(***************************************************************************)
(* C8: for every layout and every incoming cursor pair with offset +       *)
(* static size <= extra_offset, every build_clone call returns an extra    *)
(* offset >= the extra_offset it received, every nested build_clone call   *)
(* receives offset and extra_offset >= those its caller received, and each *)
(* value's fixed slot [offset, offset + static size) ends at or before the *)
(* extra_offset passed for that value.                                     *)
(***************************************************************************)
C8_CursorMonotonicity ==
    clone.cloned
    => \A k \in DOMAIN clone.out.calls :
         LET c == clone.out.calls[k]
         IN  /\ c.ret >= c.cursors.extra_offset
             /\ c.cursors.offset >= c.caller.offset
             /\ c.cursors.extra_offset >= c.caller.extra_offset
             /\ c.cursors.offset + stack_size(c.layout) <= c.cursors.extra_offset

(***************************************************************************)
(* C9: the clone helper of a NullableWrapped or NullableUnwrapped union,   *)
(* called with a null pointer, writes exactly one pointer-width zero at    *)
(* the fixed slot `offset`, writes nothing else, and returns the           *)
(* extra_offset it was given.                                              *)
(***************************************************************************)
IsNullableClone ==
    /\ clone.cloned
    /\ clone.layout.kind = "Union"
    /\ IsNullable(clone.layout.union)

C9_NullSentinel ==
    (IsNullableClone /\ clone.value = NullPtr)
    => /\ clone.out.writes =
            <<[at |-> clone.cursors.offset, width |-> ptr_size, kind |-> "int", n |-> 0]>>
       /\ clone.out.ret = clone.cursors.extra_offset

C9_Witness ==
    /\ IsNullableClone
    /\ clone.value = NullPtr
    /\ clone.layout.union.variant = "NullableWrapped"
    /\ Len(clone.out.writes) = 1

(***************************************************************************)
(* C10: the clone helper of a NullableWrapped or NullableUnwrapped union,  *)
(* called with a non-null value, writes the incoming extra_offset, which   *)
(* is not zero, as the offset reference of the fixed slot, and returns an  *)
(* extra offset strictly greater than the incoming extra_offset and at     *)
(* least the incoming extra_offset plus the static size of the variant's   *)
(* field set.                                                              *)
(***************************************************************************)
C10_NonNullAdvances ==
    (IsNullableClone /\ clone.value # NullPtr)
    => LET u == clone.layout.union
           fields == FieldsOfTag(u, clone.value.tag_id)
           extra == clone.cursors.extra_offset
           ref_at == IF stores_tag_id_in_pointer(u)
                     THEN clone.cursors.offset + 4
                     ELSE clone.cursors.offset
       IN  /\ extra # 0
           /\ \E k \in DOMAIN clone.out.writes :
                /\ clone.out.writes[k].at = ref_at
                /\ clone.out.writes[k].kind = "int"
                /\ clone.out.writes[k].n = extra
           /\ clone.out.ret > extra
           /\ clone.out.ret >= extra + stack_size(LStruct(fields))

(***************************************************************************)
(* Reading what generation left in the module                              *)
(***************************************************************************)
GenEvents == llvm_module.events
IsAddFunc(e) == e.op = "add_func"
IsCall(e) == e.op = "call"

\* the events at which a function was added
AddedAt(name) == {k \in DOMAIN GenEvents : IsAddFunc(GenEvents[k]) /\ GenEvents[k].fn = name}

\* the instructions of function name, in order of emission
RECURSIVE BodyFrom(_, _)
BodyFrom(name, k) ==
    IF k > Len(GenEvents) THEN <<>>
    ELSE IF GenEvents[k].fn = name /\ ~IsAddFunc(GenEvents[k])
         THEN <<GenEvents[k].op>> \o BodyFrom(name, k + 1)
         ELSE BodyFrom(name, k + 1)
BodyOf(name) == BodyFrom(name, 1)

\* the union layouts reachable from a layout, through fields, elements, boxes and
\* recursive pointers
RECURSIVE UnionsIn(_, _), UnionsInSeq(_, _), UnionsInTags(_, _)
UnionsInSeq(layouts, seen) ==
    IF layouts = <<>> THEN seen
    ELSE UnionsInSeq(Tail(layouts), UnionsIn(Head(layouts), seen))
UnionsInTags(tags, seen) ==
    IF tags = <<>> THEN seen
    ELSE UnionsInTags(Tail(tags), UnionsInSeq(Head(tags), seen))
UnionsIn(layout, seen) ==
    CASE layout.kind = "Builtin" /\ layout.builtin = "List" -> UnionsIn(layout.elem, seen)
      [] layout.kind = "Struct" -> UnionsInSeq(layout.field_layouts, seen)
      [] layout.kind = "Boxed" -> UnionsIn(layout.inner, seen)
      [] layout.kind = "RecursivePointer" -> UnionsIn(LUnion(RecUnion(layout.rec)), seen)
      [] layout.kind = "Union" ->
            IF layout.union \in seen THEN seen
            ELSE UnionsInTags(layout.union.tags, seen \cup {layout.union})
      [] OTHER -> seen
ReachableUnions == UnionsInSeq(llvm_module.roots, {})

\* function name calls itself, or calls a function whose body calls name
IsRecursiveHelper(name) ==
    \E k \in DOMAIN GenEvents :
        /\ IsCall(GenEvents[k])
        /\ GenEvents[k].callee = name
        /\ GenEvents[k].fn # EntryFn
        /\ \E a \in AddedAt(name) : a < k

(***************************************************************************)
(* C11: generation of clone helpers terminates for directly and mutually   *)
(* self-referential union layouts: it never runs past the nesting bound,   *)
(* a helper function is in the module before any instruction of its body   *)
(* is emitted and before any call to it, and the number of helper bodies   *)
(* built is at most the number of distinct union layouts reachable from    *)
(* the layouts generation was started for.                                 *)
(***************************************************************************)
C11_GenerationTerminates ==
    /\ ~llvm_module.diverged
    /\ \A k \in DOMAIN GenEvents :
         LET e == GenEvents[k]
         IN  /\ (e.fn # EntryFn /\ ~IsAddFunc(e))
                  => \E i \in 1..Len(llvm_module.functions) :
                        /\ llvm_module.functions[i] = e.fn
                        /\ \E a \in AddedAt(e.fn) : a < k
             /\ IsCall(e)
                  => /\ get_function(llvm_module, e.callee)
                     /\ \E a \in AddedAt(e.callee) : a < k
    /\ Cardinality({k \in DOMAIN GenEvents : IsAddFunc(GenEvents[k])})
          <= Cardinality(ReachableUnions)

\* clone code was generated for the mutually recursive pair: both helpers exist and
\* the inner one calls the outer one from its body
C11_Witness ==
    /\ llvm_module.roots = <<LUnion(RecUnion("Ping"))>>
    /\ Len(llvm_module.functions) = 2
    /\ \E k \in DOMAIN GenEvents :
         /\ IsCall(GenEvents[k])
         /\ GenEvents[k].fn = fn_name(PongUnion)
         /\ GenEvents[k].callee = fn_name(RecUnion("Ping"))

(***************************************************************************)
(* C12: over any sequence of build_clone calls in one module, at most one  *)
(* clone helper is created per union layout, named by the CLONE symbol and *)
(* the layout; every occurrence of the layout, nested or recursive, is a   *)
(* call to that one function, and its body is built once.                  *)
(***************************************************************************)
C12_OneHelperPerUnionLayout ==
    /\ \A i, j \in DOMAIN llvm_module.functions :
         llvm_module.functions[i] = llvm_module.functions[j] => i = j
    /\ \A i \in DOMAIN llvm_module.functions :
         LET name == llvm_module.functions[i]
         IN  /\ name.symbol = "CLONE"
             /\ name.layout.kind = "Union"
             /\ Cardinality(AddedAt(name)) = 1
    /\ \A k \in DOMAIN GenEvents :
         IsCall(GenEvents[k]) => Cardinality(AddedAt(GenEvents[k].callee)) = 1
    /\ \A u \in ReachableUnions :
         ~safe_to_memcpy(LUnion(u))
            => /\ Cardinality(AddedAt(fn_name(u))) = 1
               /\ \E k \in DOMAIN GenEvents :
                     IsCall(GenEvents[k]) /\ GenEvents[k].callee = fn_name(u)

\* the same recursive union was cloned twice, and nested twice in a struct the
\* second time: one helper, called from its own body and three times from outside
C12_Witness ==
    /\ llvm_module.roots =
          <<LUnion(RecUnion("Expr")),
            LStruct(<<LUnion(RecUnion("Expr")), LUnion(RecUnion("Expr"))>>)>>
    /\ llvm_module.functions = <<fn_name(RecUnion("Expr"))>>
    /\ IsRecursiveHelper(fn_name(RecUnion("Expr")))
    /\ Cardinality({k \in DOMAIN GenEvents :
                       /\ IsCall(GenEvents[k])
                       /\ GenEvents[k].fn = EntryFn}) = 3

(***************************************************************************)
(* Reading a frame                                                         *)
(***************************************************************************)
Frame == shm.frame
FrameWrites(part) == {k \in DOMAIN Frame.writes : Frame.writes[k].part = part}
HasFrame == shm.active /\ Frame.appended

\* the offset at which the values of the frame end: the extra offset returned by the
\* clone of the last value, or the end of the header when nothing is captured
ValuesEnd ==
    IF Frame.lookups = <<>> THEN Frame.after_header
    ELSE Frame.rets[Len(Frame.rets)]

(***************************************************************************)
(* C13: in clone_to_shared_memory the two state words are written only     *)
(* after the frame header, every value and the whole lookup table; an      *)
(* append increments the frame count by exactly 1 and sets the next free   *)
(* offset to the extra offset returned by the clone of the last value (the *)
(* end of the header when there are no lookups); the state words do not    *)
(* change while the frame is written, and the next frame's header is       *)
(* written at the next free offset the previous append stored.             *)
(***************************************************************************)
C13_StateWordsLast ==
    HasFrame
    => /\ \A i, j \in DOMAIN Frame.writes :
            (i < j /\ Frame.writes[i].part = "state") => Frame.writes[j].part = "state"
       /\ FrameWrites("state") # {}
            => /\ Cardinality(FrameWrites("header")) = 3
               /\ Cardinality(FrameWrites("table")) = 2 * Len(Frame.lookups)
               /\ Frame.lookups # <<>> => FrameWrites("value") # {}
       /\ shm.pc = "store_count" => StateWords = shm.committed
       /\ shm.pc = "idle"
            => /\ shm.count = Frame.count_read + 1
               /\ shm.next_free = ValuesEnd
               /\ Cardinality(FrameWrites("state")) = 2

C13_NextFrameStartsAtNextFree ==
    (shm.pc = "idle" /\ shm'.pc = "store_count")
    => /\ shm'.frame.start = shm.next_free
       /\ shm'.frame.writes[1].at = shm.next_free
       /\ shm'.frame.count_read = shm.count
       /\ shm'.count = shm.count
       /\ shm'.next_free = shm.next_free

C13_CommitIsLastStep == [](C13_StateWordsLast) /\ [][C13_NextFrameStartsAtNextFree]_vars

\* a second frame with two captured values has been committed
C13_Witness ==
    /\ HasFrame
    /\ shm.pc = "idle"
    /\ shm.count = 2
    /\ Len(Frame.lookups) = 2
    /\ Frame.start > InitialOffset
    /\ shm.next_free = Frame.rets[2]

(***************************************************************************)
(* C14: a concurrent reader of the shared buffer never sees the frame      *)
(* count of an append together with the next free offset from before that  *)
(* append, or the reverse: the pair of state words it loads is the pair    *)
(* before the append or the pair after it.                                 *)
(***************************************************************************)
C14_StateWordsAtomic ==
    (shm.active /\ shm.seen.looked)
    => [count |-> shm.seen.count, offset |-> shm.seen.offset]
          \in {shm.seen.committed, shm.seen.pending}

(***************************************************************************)
(* C15: for every layout shape, the bytes build_clone writes in the fixed  *)
(* region of one value (the stores that start before the value's           *)
(* extra_offset) add up to the layout's stack_size; a struct that is not   *)
(* safe to memcpy advances `offset` by the sum of its fields' stack sizes, *)
(* and that sum is the struct's stack_size; a list writes three            *)
(* pointer-width words and a boxed or pointer-represented union value one. *)
(***************************************************************************)
RECURSIVE FixedBytesFrom(_, _, _)
FixedBytesFrom(writes, k, extra_offset) ==
    IF k > Len(writes) THEN 0
    ELSE (IF writes[k].at < extra_offset THEN writes[k].width ELSE 0)
         + FixedBytesFrom(writes, k + 1, extra_offset)

FixedBytes == FixedBytesFrom(clone.out.writes, 1, clone.cursors.extra_offset)

C15_FixedRegionIsStackSize ==
    clone.cloned
    => /\ FixedBytes = stack_size(clone.layout)
       /\ (clone.layout.kind = "Struct" /\ ~safe_to_memcpy(clone.layout))
            => SumSizes(clone.layout.field_layouts) = stack_size(clone.layout)
       /\ (clone.layout.kind = "Builtin" /\ clone.layout.builtin = "List")
            => FixedBytes = 3 * ptr_size
       /\ clone.layout.kind \in {"Boxed", "RecursivePointer"} => FixedBytes = ptr_size
       /\ (clone.layout.kind = "Union" /\ clone.layout.union.variant # "NonRecursive")
            => FixedBytes = ptr_size

(***************************************************************************)
(* C16: a frame appended by clone_to_shared_memory is a header of three    *)
(* 32-bit values (region start, region end, module id) at the old next     *)
(* free offset, immediately followed by one (pointer-width value offset,   *)
(* u32 variable index) pair per lookup, filling exactly the reserved       *)
(* n * (ptr_size + 4) bytes, immediately followed by the values; pair i    *)
(* stores the offset at which value i's fixed region starts, and value     *)
(* i + 1's fixed region starts at the extra offset returned by cloning     *)
(* value i.                                                                *)
(***************************************************************************)
FrameWrite(k) == Frame.writes[k]
IsFrameWrite(k, part, at, width, n) ==
    /\ FrameWrite(k).part = part
    /\ FrameWrite(k).at = at
    /\ FrameWrite(k).width = width
    /\ FrameWrite(k).kind = "int"
    /\ FrameWrite(k).n = n

\* where pair i of the lookup table is
PairAt(i) == Frame.start + 12 + (i - 1) * (ptr_size + 4)

C16_FrameShape ==
    HasFrame
    => LET n == Len(Frame.lookups)
           table_end == Frame.start + 12 + n * (ptr_size + 4)
       IN  /\ IsFrameWrite(1, "header", Frame.start, 4, 1)
           /\ IsFrameWrite(2, "header", Frame.start + 4, 4, 2)
           /\ IsFrameWrite(3, "header", Frame.start + 8, 4, 3)
           /\ FrameWrites("header") = {1, 2, 3}
           /\ Cardinality(FrameWrites("table")) = 2 * n
           /\ \A i \in 1..n :
                /\ \E k \in FrameWrites("table") :
                      IsFrameWrite(k, "table", PairAt(i), ptr_size, Frame.lookup_starts[i])
                /\ \E k \in FrameWrites("table") :
                      IsFrameWrite(k, "table", PairAt(i) + ptr_size, 4,
                                   Frame.lookup_variables[i])
                /\ \E k \in FrameWrites("value") :
                      FrameWrite(k).at = Frame.lookup_starts[i]
                /\ Frame.lookup_starts[i] =
                      IF i = 1 THEN table_end ELSE Frame.rets[i - 1]
           /\ \A k \in FrameWrites("table") :
                /\ FrameWrite(k).at >= Frame.start + 12
                /\ FrameWrite(k).at + FrameWrite(k).width <= table_end
           /\ \A k \in FrameWrites("value") : FrameWrite(k).at >= table_end

\* a frame that captures two values, the first with out-of-line bytes
C16_Witness ==
    /\ HasFrame
    /\ Len(Frame.lookups) = 2
    /\ Frame.lookups[1].layout = LStr
    /\ Frame.lookup_starts[2] = Frame.rets[1]
    /\ Frame.rets[1] > Frame.lookup_starts[1] + 3 * ptr_size
    /\ Cardinality(FrameWrites("table")) = 4

(***************************************************************************)
(* C17: expanding Inc(structure, N) on the string layout yields exactly:   *)
(* bind a fresh symbol to the integer literal N with isize layout, bind    *)
(* the unit result of calling the (Str, Inc) helper with arguments         *)
(* [structure, that symbol], continue with the unchanged `following`; the  *)
(* generated helper passes its second argument unchanged as the amount of  *)
(* its single RefCountInc call.                                            *)
(***************************************************************************)
\* the symbols bound or named by the calls before call i of the log
SymbolsBefore(i) ==
    UNION {IF IsExpand(log[k])
           THEN {l.symbol : l \in {Emitted(log[k].stmt, log[k].following)[n] :
                                     n \in DOMAIN Emitted(log[k].stmt, log[k].following)}}
                \cup HelpersCalled(log[k])
           ELSE UNION {{log[k].procs[n].name}
                       \cup {l.symbol : l \in LetsOf(log[k].procs[n].body)} :
                       n \in DOMAIN log[k].procs}
           : k \in 1..(i - 1)}

IsStrInc(e) == IsExpand(e) /\ e.layout = LAYOUT_STR /\ e.modify.rc = "Inc"

\* the symbol the queue holds for (Str, Inc) after the request
StrIncHelper(e) ==
    LET q == e.queue_after
    IN  q[CHOOSE k \in DOMAIN q : q[k].layout = LAYOUT_STR /\ q[k].op = "Inc"].symbol

C17_IncExpansionShape ==
    /\ \A i \in DOMAIN log :
         IsStrInc(log[i])
         => LET e == log[i]
                amount_sym == e.stmt.symbol
                call_stmt == e.stmt.next
            IN  /\ e.stmt.stmt = "Let"
                /\ e.stmt.expr = LiteralInt(e.modify.amount)
                /\ e.stmt.layout = LayoutIsize(ptr_size)
                /\ amount_sym \notin SymbolsBefore(i) \cup {e.modify.structure}
                /\ call_stmt =
                     Let(call_stmt.symbol,
                         CallByName(StrIncHelper(e), LAYOUT_UNIT,
                                    <<LAYOUT_STR, LayoutIsize(ptr_size)>>,
                                    <<e.modify.structure, amount_sym>>),
                         LAYOUT_UNIT, e.following)
                /\ call_stmt.symbol \notin SymbolsBefore(i) \cup {e.modify.structure, amount_sym}
    /\ (run.ran /\ OpOfProc(run.proc) = "Inc" /\ run.len >= 0)
         => LET cs == run.result.calls
                incs == RunCalls({"RefCountInc"})
            IN  /\ Cardinality(incs) = 1
                /\ \A k \in incs : cs[k].args[2] = run.amount

\* Inc(structure, 2) was expanded, its helper generated and run with amount 2
C17_Witness ==
    /\ Len(log) >= 2
    /\ IsStrInc(log[1])
    /\ log[1].modify.amount = 2
    /\ run.ran
    /\ OpOfProc(run.proc) = "Inc"
    /\ run.amount = 2
    /\ run.len >= 0
    /\ Cardinality(RunCalls({"RefCountInc"})) = 1

(***************************************************************************)
(* C18: generate_procs returns the queued helpers in the order in which    *)
(* their (layout, operation) pairs were first requested: the i-th Proc     *)
(* returned is named by the symbol the i-th registering request since the  *)
(* queue was last drained returned, for any interleaving of Inc and Dec.   *)
(***************************************************************************)
IsRegistering(e) == IsExpand(e) /\ e.new_proc_info.some

\* the symbols returned by the registering requests among calls i..j of the log
RECURSIVE RegisteredIn(_, _)
RegisteredIn(i, j) ==
    IF i > j THEN <<>>
    ELSE (IF IsRegistering(log[i]) THEN <<log[i].new_proc_info.value.symbol>> ELSE <<>>)
         \o RegisteredIn(i + 1, j)

\* the call after the last generate_procs before call j (1 when there is none)
DrainedBefore(j) ==
    LET gs == {k \in 1..(j - 1) : IsGenerate(log[k])}
    IN  IF gs = {} THEN 1 ELSE (CHOOSE k \in gs : \A g \in gs : g <= k) + 1

C18_ProcsInRegistrationOrder ==
    \A j \in DOMAIN log :
        IsGenerate(log[j])
        => LET registered == RegisteredIn(DrainedBefore(j), j - 1)
           IN  /\ Len(log[j].procs) = Len(registered)
               /\ \A n \in DOMAIN registered : log[j].procs[n].name = registered[n]

\* Dec was requested before Inc, and generate_procs returned the Dec helper first
C18_Witness ==
    /\ Len(log) = 3
    /\ IsRegistering(log[1]) /\ log[1].modify.rc = "Dec"
    /\ IsRegistering(log[2]) /\ log[2].modify.rc = "Inc"
    /\ IsGenerate(log[3])
    /\ Len(log[3].procs) = 2
    /\ Len(log[3].procs[1].args) = 1
    /\ Len(log[3].procs[2].args) = 2

(***************************************************************************)
(* C19: across a whole run of one CodeGenHelp, the counter suffix of the   *)
(* helper debug names '#rc<Op>_<layout>_<idx>' is strictly increasing over *)
(* successive registrations, so no two registered helpers have the same    *)
(* debug name.                                                             *)
(***************************************************************************)
\* the debug name ident_ids holds for the helper a registering request created
DebugNameOf(e) == ident_ids[e.new_proc_info.value.symbol.ident + 1]

\* the counter get_proc_symbol used for it
UniqueIdxOf(e) == Len(e.queue_before)

C19_DebugNamesUnique ==
    \A i, j \in DOMAIN log :
        (i < j /\ IsRegistering(log[i]) /\ IsRegistering(log[j]))
        => /\ DebugNameOf(log[i]) =
                "#rc" \o log[i].modify.rc \o "_" \o layout_debug_name(log[i].layout)
                \o "_" \o ToString(UniqueIdxOf(log[i]))
           /\ UniqueIdxOf(log[i]) < UniqueIdxOf(log[j])
           /\ DebugNameOf(log[i]) # DebugNameOf(log[j])

(***************************************************************************)
(* C20: for a NonRecursive union layout with zero variants, the body       *)
(* build_clone_tag_help generates is only an unreachable terminator: no    *)
(* tag extraction, no switch, no buffer write and no return.               *)
(***************************************************************************)
C20_EmptyUnionIsUnreachable ==
    get_function(llvm_module, fn_name(EmptyUnion))
    => /\ BodyOf(fn_name(EmptyUnion)) = <<"unreachable">>
       /\ \A k \in DOMAIN GenEvents :
            GenEvents[k].fn = fn_name(EmptyUnion)
            => GenEvents[k].op \notin {"get_tag_id", "switch", "store", "ret", "br"}

\* the helper of the empty union has been generated and is called
C20_Witness ==
    /\ get_function(llvm_module, fn_name(EmptyUnion))
    /\ \E k \in DOMAIN GenEvents :
         IsCall(GenEvents[k]) /\ GenEvents[k].callee = fn_name(EmptyUnion)
    /\ Len(BodyOf(fn_name(EmptyUnion))) = 1

(***************************************************************************)
(* C21: expanding one Dec on the struct layout { a: Str, b: Int }          *)
(* registers exactly one Dec helper for the struct layout, and the body    *)
(* generated for it issues one nested call into the string Dec helper for  *)
(* field a and performs no action for field b.                             *)
(***************************************************************************)
IsStructDec(e) == IsExpand(e) /\ e.layout = StructStrInt /\ e.modify.rc = "Dec"

C21_StructDecHelper ==
    \A i \in DOMAIN log :
        IsStructDec(log[i])
        => /\ log[i].new_proc_info.some
           /\ Cardinality({k \in DOMAIN log[i].queue_after :
                              /\ log[i].queue_after[k].layout = StructStrInt
                              /\ log[i].queue_after[k].op = "Dec"}) = 1
           /\ \A j \in DOMAIN log :
                (j > i /\ IsGenerate(log[j]) /\ NoGenerateBetween(i, j))
                => \E n \in DOMAIN log[j].procs :
                     /\ log[j].procs[n].args[1].layout = StructStrInt
                     /\ Cardinality({l \in LetsOf(log[j].procs[n].body) :
                                        IsByName(l.expr)}) = 1

(***************************************************************************)
(* C22: build_clone on a value whose layout has no out-of-line content     *)
(* (scalar builtins, lambda sets, memcpy-safe unions and memcpy-safe       *)
(* structs), at any nesting position and for any incoming cursor pair,     *)
(* returns exactly the extra_offset it was given.                          *)
(***************************************************************************)
CloneCalls == clone.out.calls

C22_NoOutOfLineKeepsExtra ==
    clone.cloned
    => \A k \in DOMAIN CloneCalls :
         safe_to_memcpy(CloneCalls[k].layout)
         => CloneCalls[k].ret = CloneCalls[k].cursors.extra_offset

(***************************************************************************)
(* C23: cloning a Boxed value with incoming cursors (offset, extra_offset) *)
(* writes extra_offset at the fixed slot `offset` and clones the inner     *)
(* value with fixed cursor = extra_offset and extra cursor = extra_offset  *)
(* + static size of the inner layout.                                      *)
(***************************************************************************)
C23_BoxedInnerCursors ==
    clone.cloned
    => \A k \in DOMAIN CloneCalls :
         CloneCalls[k].layout.kind = "Boxed"
         => LET c == CloneCalls[k]
                inner == CloneCalls[k + 1]
            IN  /\ \E w \in DOMAIN clone.out.writes :
                     /\ clone.out.writes[w].at = c.cursors.offset
                     /\ clone.out.writes[w].kind = "int"
                     /\ clone.out.writes[w].width = ptr_size
                     /\ clone.out.writes[w].n = c.cursors.extra_offset
                /\ inner.layout = c.layout.inner
                /\ inner.cursors.offset = c.cursors.extra_offset
                /\ inner.cursors.extra_offset =
                     c.cursors.extra_offset + stack_size(c.layout.inner)

(***************************************************************************)
(* C24: cloning a list of length n with incoming cursors (offset,          *)
(* extra_offset) writes the three words (extra_offset, n, n) consecutively *)
(* at `offset` and places element i's fixed slot at extra_offset +         *)
(* i*elem_size; for memcpy-safe elements the result is extra_offset +      *)
(* n*elem_size; otherwise the rest cursor starts at extra_offset +         *)
(* n*elem_size, element i is cloned with the rest cursor returned by       *)
(* element i-1, and the result is the final rest cursor (extra_offset when *)
(* n = 0).                                                                 *)
(***************************************************************************)
IsListClone ==
    /\ clone.cloned
    /\ clone.layout.kind = "Builtin"
    /\ clone.layout.builtin = "List"

\* the build_clone calls made for the elements of the list cloned, in order
ElemCalls ==
    LET ks == {k \in 2..Len(CloneCalls) :
                 CloneCalls[k].caller = clone.cursors /\ CloneCalls[k].layout = clone.layout.elem}
        nth[i \in 1..Cardinality(ks)] ==
            CHOOSE k \in ks : Cardinality({j \in ks : j < k}) = i - 1
    IN  [i \in 1..Cardinality(ks) |-> CloneCalls[nth[i]]]

ListWord(at, n) == [at |-> at, width |-> ptr_size, kind |-> "int", n |-> n]

C24_ListClone ==
    IsListClone
    => LET n == Len(clone.value.elems)
           elem == clone.layout.elem
           elem_size == stack_size(elem)
           offset == clone.cursors.offset
           extra_offset == clone.cursors.extra_offset
           writes == clone.out.writes
       IN  /\ Len(writes) >= 3
           /\ writes[1] = ListWord(offset, extra_offset)
           /\ writes[2] = ListWord(offset + ptr_size, n)
           /\ writes[3] = ListWord(offset + 2 * ptr_size, n)
           /\ IF safe_to_memcpy(elem)
              THEN /\ Len(writes) = 4
                   /\ writes[4].at = extra_offset
                   /\ writes[4].width = n * elem_size
                   /\ clone.out.ret = extra_offset + n * elem_size
              ELSE /\ Len(ElemCalls) = n
                   /\ \A i \in 1..n :
                        /\ ElemCalls[i].cursors.offset = extra_offset + (i - 1) * elem_size
                        /\ ElemCalls[i].cursors.extra_offset =
                             IF i = 1 THEN extra_offset + n * elem_size
                             ELSE ElemCalls[i - 1].ret
                   /\ clone.out.ret =
                        IF n = 0 THEN extra_offset ELSE ElemCalls[n].ret

\* a list of two heap strings: the second is cloned where the first one ended
C24_Witness ==
    /\ IsListClone
    /\ ~safe_to_memcpy(clone.layout.elem)
    /\ Len(clone.value.elems) = 2
    /\ Len(ElemCalls) = 2
    /\ ElemCalls[1].ret > ElemCalls[1].cursors.extra_offset
    /\ ElemCalls[2].cursors.extra_offset = ElemCalls[1].ret
    /\ clone.out.ret > ElemCalls[2].cursors.extra_offset

(***************************************************************************)
(* C25: in the NullableWrapped clone helper, the block of a tag id i other *)
(* than nullable_id clones the fields other_tags[i] when i < nullable_id   *)
(* and other_tags[i-1] when i > nullable_id, and apart from that field     *)
(* selection it writes the same pointer word and clones the same payload   *)
(* layout (including the tag id word when the tag is not stored in the     *)
(* pointer) as the Recursive case.                                         *)
(***************************************************************************)
IsNullableWrappedClone ==
    /\ clone.cloned
    /\ clone.layout.kind = "Union"
    /\ clone.layout.union.variant = "NullableWrapped"
    /\ clone.value # NullPtr

\* the payload layout the Recursive arm clones for a variant's fields
RecursivePayload(u, fields) ==
    IF stores_tag_id_in_pointer(u)
    THEN LStruct(fields)
    ELSE LStruct(<<LStruct(fields), tag_id_layout>>)

C25_NullableWrappedAsRecursive ==
    IsNullableWrappedClone
    => LET u == clone.layout.union
           i == clone.value.tag_id
           other_tags == u.tags
           fields == IF i < u.nullable_id THEN other_tags[i + 1] ELSE other_tags[i]
           offset == clone.cursors.offset
           extra_offset == clone.cursors.extra_offset
           word == IF stores_tag_id_in_pointer(u)
                   THEN <<Wr(offset, I32(i)), Wr(offset + 4, I32(extra_offset))>>
                   ELSE <<Wr(offset, PtrInt(extra_offset))>>
       IN  /\ i # u.nullable_id
           /\ SubSeq(clone.out.writes, 1, Len(word)) = word
           /\ CloneCalls[2].layout = RecursivePayload(u, fields)
           /\ CloneCalls[2].cursors = Cursors(extra_offset, extra_offset + data_size(u))

(***************************************************************************)
(* C26: when the union stores its tag id in the pointer,                   *)
(* write_pointer_with_tag_id writes the tag id as a 32-bit value at        *)
(* `offset` and the extra offset as a 32-bit value at `offset + 4`, and on *)
(* every pointer width (4 or 8 bytes) these two writes stay inside the     *)
(* union's single pointer-width fixed slot [offset, offset + ptr_size).    *)
(***************************************************************************)
IsTagInPointerClone ==
    /\ clone.cloned
    /\ clone.layout.kind = "Union"
    /\ stores_tag_id_in_pointer(clone.layout.union)
    /\ clone.value # NullPtr

C26_TagWordInsideSlot ==
    IsTagInPointerClone
    => LET offset == clone.cursors.offset
           writes == clone.out.writes
       IN  /\ writes[1] = Wr(offset, I32(clone.value.tag_id))
           /\ writes[2] = Wr(offset + 4, I32(clone.cursors.extra_offset))
           /\ \A k \in 1..2 :
                /\ writes[k].at >= offset
                /\ writes[k].at + writes[k].width <= offset + ptr_size

(***************************************************************************)
(* C27: generated refcount helper bodies and the inline DecRef expansion   *)
(* never read or write the refcount word themselves; the only refcount     *)
(* modification is one RefCountInc/RefCountDec primitive call, so with     *)
(* atomic primitives any interleaving of concurrent helper invocations on  *)
(* the same heap-backed string (increments by N_1..N_k and m decrements)   *)
(* changes the count by exactly N_1 + ... + N_k - m.                       *)
(***************************************************************************)
LowLevelOpsOf(stmt) == {l.expr.call_type.op : l \in {x \in LetsOf(stmt) : IsLowLevel(x.expr)}}

\* the primitives that modify a refcount
RcModifyOps == {"RefCountInc", "RefCountDec"}

RcCallsOf(stmt) ==
    {l \in LetsOf(stmt) : IsLowLevel(l.expr) /\ l.expr.call_type.op \in RcModifyOps}

\* the operation of the helper a thread called: procs are in queue order
ThreadOp(t) == threads.queue[threads.started[t].proc].op

Started == threads.started

\* what the invocations made so far ask for: the sum of the amounts minus the decrements
RECURSIVE RequestedChange(_)
RequestedChange(t) ==
    IF t = 0 THEN 0
    ELSE RequestedChange(t - 1)
         + (IF ThreadOp(t) = "Inc"
            THEN Started[t].amount ELSE -1)

AllReturned == \A t \in DOMAIN Started : Started[t].pc > Len(Started[t].calls)

C27_OnlyAtomicPrimitives ==
    threads.active
    => /\ \A i \in DOMAIN threads.procs :
            /\ LowLevelOpsOf(threads.procs[i].body)
                 \subseteq ({"NumGte", "RefCountGetPtr"} \cup RcModifyOps)
            /\ Cardinality(RcCallsOf(threads.procs[i].body)) = 1
       /\ LowLevelOpsOf(threads.decref) \subseteq ({"RefCountGetPtr"} \cup RcModifyOps)
       /\ Cardinality(RcCallsOf(threads.decref)) = 1
       /\ \A t \in DOMAIN Started :
            Cardinality({k \in DOMAIN Started[t].calls : Started[t].calls[k].op \in RcModifyOps}) = 1
       /\ AllReturned
          => threads.refcount = InitialRefcount + RequestedChange(Len(Started))

\* increments by 1 and by 2 and one decrement have all returned
C27_Witness ==
    /\ threads.active
    /\ Len(Started) = 3
    /\ AllReturned
    /\ \E a, b, c \in DOMAIN Started :
         /\ ThreadOp(a) = "Inc" /\ Started[a].amount = 1
         /\ ThreadOp(b) = "Inc" /\ Started[b].amount = 2
         /\ ThreadOp(c) = "Dec"
    /\ threads.refcount = InitialRefcount + 2

(***************************************************************************)
(* C28: in every reachable state of a CodeGenHelp, each entry of           *)
(* rc_procs_to_generate has a layout accepted by layout_is_supported and   *)
(* an operation that is Inc or Dec (never DecRef), so for any sequence of  *)
(* expand_refcount_stmt requests generate_procs never reaches its fatal    *)
(* unsupported-layout branch nor the unreachable branch of                 *)
(* layout_debug_name.                                                      *)
(***************************************************************************)
C28_QueueIsGenerable ==
    /\ \A k \in DOMAIN rc_procs_to_generate :
         /\ layout_is_supported(rc_procs_to_generate[k].layout)
         /\ rc_procs_to_generate[k].op \in {"Inc", "Dec"}
    /\ \A i \in DOMAIN log :
         /\ IsGenerate(log[i]) => ~log[i].panic
         /\ IsRegistering(log[i]) => layout_debug_name(log[i].layout) # "unreachable!"

\* a request on a struct was skipped, a request on a string queued one helper, and
\* generate_procs generated it
C28_Witness ==
    /\ Len(log) = 3
    /\ IsExpand(log[1]) /\ log[1].layout = StructStrInt /\ log[1].modify.rc = "Dec"
    /\ IsRegistering(log[2])
    /\ Len(log[2].queue_after) = 1
    /\ IsGenerate(log[3])
    /\ Len(log[3].procs) = 1
    /\ ~log[3].panic

(***************************************************************************)
(* C29: generate_procs returns exactly one Proc per entry queued at the    *)
(* time of the call (as many procs as requests that returned new-proc info *)
(* since the previous generate_procs), each with return layout unit, and   *)
(* leaves the queue empty, so an immediately repeated generate_procs       *)
(* returns no procs.                                                       *)
(***************************************************************************)
C29_GenerateDrainsQueue ==
    /\ \A j \in DOMAIN log :
         IsGenerate(log[j])
         => /\ Len(log[j].procs) = Len(log[j].queue_before)
            /\ Len(log[j].procs) = Len(RegisteredIn(DrainedBefore(j), j - 1))
            /\ \A n \in DOMAIN log[j].procs :
                 /\ log[j].procs[n].name = log[j].queue_before[n].symbol
                 /\ log[j].procs[n].ret_layout = LAYOUT_UNIT
            /\ log[j].queue_after = <<>>
            /\ (j > 1 /\ IsGenerate(log[j - 1])) => log[j].procs = <<>>
    /\ (log # <<>> /\ IsGenerate(log[Len(log)])) => rc_procs_to_generate = <<>>

\* a helper was queued and generated, and a second generate_procs right after
\* returned nothing
C29_Witness ==
    /\ Len(log) = 3
    /\ IsRegistering(log[1])
    /\ IsGenerate(log[2])
    /\ Len(log[2].procs) = 1
    /\ IsGenerate(log[3])
    /\ log[3].procs = <<>>
    /\ rc_procs_to_generate = <<>>

(***************************************************************************)
(* C30: for any list of lookups, every byte written during one             *)
(* clone_to_shared_memory call (other than the two state words) lies at an *)
(* offset >= the next-free offset read at the start of the call and < the  *)
(* next-free offset committed at its end, and no out-of-line content is    *)
(* written over a fixed slot of the same frame; consequently successive    *)
(* frames never overlap.                                                   *)
(***************************************************************************)
\* the writes of the frame that are not the state words and store at least a byte
FrameBytes ==
    {k \in DOMAIN Frame.writes : Frame.writes[k].part # "state" /\ Frame.writes[k].width > 0}

WritesOverlap(a, b) == a.at < b.at + b.width /\ b.at < a.at + a.width

C30_FrameWritesInsideFrame ==
    HasFrame
    => /\ \A k \in FrameBytes :
            /\ Frame.writes[k].at >= Frame.start
            /\ Frame.writes[k].at + Frame.writes[k].width <= Frame.new_offset
       /\ \A j, k \in FrameBytes :
            j < k => ~WritesOverlap(Frame.writes[j], Frame.writes[k])

====
